---- MODULE Spec2Model ----
(***************************************************************************)
(* Markdown-to-PDF composition pipeline of mdToPdf.                        *)
(*                                                                         *)
(*  - the block structural parser (lib/pdf/document: parseMarkdownTo-      *)
(*    Elements, flushParagraph, flushList), one step per source line;      *)
(*  - the theme store and the theme resolver (ThemeManager,                *)
(*    getStylesForPreset, createCustomStyles);                             *)
(*  - the conversion entry point generatePDF with the diagram extractor    *)
(*    and rasterizer (extractAndRenderMermaidDiagrams, getMermaidDataUris).*)
(*                                                                         *)
(* A source line is abstracted to its syntactic kind (what the regular     *)
(* expressions of the parser can tell apart) and a text token.             *)
(***************************************************************************)
EXTENDS Integers, Sequences, FiniteSets, TLC

VARIABLES
  \* ---- block parser (parseMarkdownToElements) ----
  lines,             \* markdown.split('\n')
  i,                 \* loop index (1-based), Len(lines)+1 when the loop is over
  inCodeBlock,
  codeBlockContent,
  inList,
  listItems,
  currentParagraph,
  elements,
  parsed,            \* TRUE once the function has returned
  blankSeen,         \* history: the last step processed a blank line outside a code block
  \* ---- theme store (localStorage[THEME_STORAGE_KEY]) and resolver ----
  storage,
  now,               \* Date.now()
  lastOp,            \* the last ThemeManager operation and what it returned
  resolved,          \* the last getStylesForPreset call and its outcome
  \* ---- generatePDF and the diagram sub-pipeline ----
  gpc,               \* where the invocation of generatePDF is
  markdown,          \* options.markdown, as lines
  stylePreset,       \* options.stylePreset
  cleanMarkdown,
  mermaidLoaded,     \* import('mermaid') and initialize went through
  matchNo,           \* matches of mermaidRegex consumed so far
  index,
  diagrams,          \* Map<string, string> in insertion order
  inflight,          \* the awaited diagram operation
  rasterNo,          \* entries of diagrams consumed by getMermaidDataUris
  mermaidDataUris,
  document,          \* what createPDFDocument returned
  stages,            \* history: the stages started, in order
  outcome,           \* the PDFResult or the error thrown
  rendered,          \* history: blocks whose render succeeded
  rasterized,        \* history: blocks whose bitmap was produced
  emojiMode,         \* the emojiMode the caller put in the configuration
  renderIds,         \* history: the ids given to mermaid.render, in call order
  engineTheme,       \* the theme of the configuration the mermaid module holds
  renderThemes,      \* history: the engine theme at each mermaid.render call of the PDF path
  \* ---- emoji sanitizer (prepareMarkdownForPDF), one call ----
  epc,               \* "idle", "called" or "returned"
  emarkdown,         \* the markdown argument, as characters
  mode,
  eresult,
  \* ---- inline formatter (parseInlineFormatting), one call ----
  fpc,               \* "idle", "matching" or "returned"
  text,              \* the text argument, as characters
  parts,
  lastIndex,         \* 0-based, as in the code
  \* ---- PDFViewer (components/pdf-viewer) ----
  viewerMounted,     \* the component is mounted
  pdfResult,         \* the url of the PDFResult in state (0 for null)
  loading,
  viewerError,       \* the error state is not null
  effects,           \* the runs of the generation effect, the current one last
  urlsCreated,       \* blob URLs created by generatePDF so far (they are 1..urlsCreated)
  revokedUrls,       \* URLs given to URL.revokeObjectURL
  \* ---- preview's initializeMermaid (lib/dynamic-imports) ----
  mermaidInitialized,
  ipc,               \* "idle", "importing" or "rendering"
  initCalls,         \* calls of initializeMermaid so far
  \* ---- usePDFGenerator (hooks/use-pdf-generator) ----
  hookInputs,        \* the debounced inputs: [version, blank]
  hookRuns,          \* the calls of generate, in call order
  hookResult,        \* version of the inputs the PDF in `result` was made from (0 for null)
  hookError,         \* version of the inputs the error in `error` is about (0 for null)
  \* ---- AppContent: editor content and its stored draft ----
  editor,            \* the markdown state: 0 for '', else a content
  draft,             \* localStorage[STORAGE_KEY]: 0 for absent, else a content
  saveTimer,         \* content of the pending autosave timeout (0 for none)
  idleSaves,         \* contents of the saveMarkdown calls whose idle callback has not run
  clearedSince       \* history: Clear was confirmed and the editor has been empty since

pvars == <<lines, i, inCodeBlock, codeBlockContent, inList, listItems,
           currentParagraph, elements, parsed, blankSeen>>
tvars == <<storage, now, lastOp, resolved>>
gvars == <<gpc, markdown, stylePreset, cleanMarkdown, mermaidLoaded, matchNo, index,
           diagrams, inflight, rasterNo, mermaidDataUris, document, stages, outcome,
           rendered, rasterized, emojiMode, renderIds, engineTheme, renderThemes>>
evars == <<epc, emarkdown, mode, eresult>>
fvars == <<fpc, text, parts, lastIndex>>
\* the state of the functions that are called on their own
vvars == <<viewerMounted, pdfResult, loading, viewerError, effects, urlsCreated, revokedUrls>>
mvars == <<mermaidInitialized, ipc, initCalls>>
hvars == <<hookInputs, hookRuns, hookResult, hookError>>
dvars == <<editor, draft, saveTimer, idleSaves, clearedSince>>
uvars == <<hvars, dvars>>
xvars == <<evars, fvars, vvars, mvars, uvars>>
vars  == <<pvars, tvars, gvars, xvars>>

----------------------------------------------------------------------------
(* Bounds *)

MaxLines == 4
MaxLevel == 2

----------------------------------------------------------------------------
(* Source lines *)

Line(k, lv, t) == [kind |-> k, level |-> lv, text |-> t]

\* "fence":  line.trim().startsWith('```')
\* "mfence": the line ```mermaid (a fence for the block parser)
\* "heading": /^#{level}\s+(.+)$/, text is the captured group
\* "hr": trimmed line is ---, *** or ___
\* "quote": line.trim().startsWith('>')
\* "ul" / "ol": the two list-item patterns, text is the captured group
\* "blank": line.trim() === ''
\* "text": anything else
\* The text of a line is a sequence of character tokens.
ParserLines ==
  { Line("fence", 0, <<>>), Line("hr", 0, <<>>), Line("blank", 0, <<>>),
    Line("quote", 0, <<"a">>), Line("ul", 0, <<"a">>), Line("ol", 0, <<"a">>),
    Line("text", 0, <<"a">>) }
  \cup { Line("heading", lv, <<"a">>) : lv \in 1..MaxLevel }

RECURSIVE SeqsUpTo(_, _)
SeqsUpTo(S, n) ==
  IF n = 0 THEN { <<>> }
  ELSE LET shorter == SeqsUpTo(S, n - 1)
       IN  shorter \cup { Append(s, x) : s \in { t \in shorter : Len(t) = n - 1 }, x \in S }

IsFence(l) == l.kind \in {"fence", "mfence"}

----------------------------------------------------------------------------
(* Block parser: elements and the parser's local state *)

\* One React element pushed to `elements`. `items` holds the text pieces of
\* the node, each with the source line it was read from; `key` is the number
\* used in the element's key (the line index, or elements.length).
Element(ty, lv, its, k) == [type |-> ty, level |-> lv, items |-> its, key |-> k]
Piece(n, l) == [line |-> n, text |-> l.text]

PState == [inCodeBlock |-> inCodeBlock, codeBlockContent |-> codeBlockContent,
           inList |-> inList, listItems |-> listItems,
           currentParagraph |-> currentParagraph, elements |-> elements]

InitialPState == [inCodeBlock |-> FALSE, codeBlockContent |-> <<>>,
                  inList |-> FALSE, listItems |-> <<>>,
                  currentParagraph |-> <<>>, elements |-> <<>>]

flushParagraph(s) ==
  IF Len(s.currentParagraph) > 0
  THEN [s EXCEPT !.elements = Append(@, Element("paragraph", 0, s.currentParagraph, Len(s.elements))),
                 !.currentParagraph = <<>>]
  ELSE s

flushList(s) ==
  IF Len(s.listItems) > 0
  THEN [s EXCEPT !.elements = Append(@, Element("list", 0, s.listItems, Len(s.elements))),
                 !.listItems = <<>>,
                 !.inList = FALSE]
  ELSE [s EXCEPT !.inList = FALSE]

pushCodeLineDropped(s, l, n) == s

\* codeBlockContent.push(line)
pushCodeLine(s, l, n) == [s EXCEPT !.codeBlockContent = Append(@, Piece(n, l))]

\* The body of the for loop for line l at (1-based) index n.
parseLine(s, l, n) ==
  IF IsFence(l) THEN
    IF s.inCodeBlock
    THEN [s EXCEPT !.elements = Append(@, Element("code", 0, s.codeBlockContent, n)),
                   !.codeBlockContent = <<>>,
                   !.inCodeBlock = FALSE]
    ELSE [flushParagraph(s) EXCEPT !.inCodeBlock = TRUE]
  ELSE IF s.inCodeBlock THEN
    pushCodeLine(s, l, n)
  ELSE IF l.kind = "heading" THEN
    LET f == flushParagraph(s)
    IN  [f EXCEPT !.elements = Append(@, Element("heading", l.level, <<Piece(n, l)>>, n))]
  ELSE IF l.kind = "hr" THEN
    LET f == flushParagraph(s)
    IN  [f EXCEPT !.elements = Append(@, Element("hr", 0, <<>>, n))]
  ELSE IF l.kind = "quote" THEN
    LET f == flushParagraph(s)
    IN  [f EXCEPT !.elements = Append(@, Element("quote", 0, <<Piece(n, l)>>, n))]
  ELSE IF l.kind \in {"ul", "ol"} THEN
    LET f == IF ~s.inList THEN [flushParagraph(s) EXCEPT !.inList = TRUE] ELSE s
    IN  [f EXCEPT !.listItems = Append(@, Piece(n, l))]
  ELSE IF s.inList /\ l.kind = "blank" THEN
    [flushList(s) EXCEPT !.inList = FALSE]
  ELSE IF l.kind = "blank" THEN
    flushList(flushParagraph(s))
  ELSE
    [s EXCEPT !.currentParagraph = Append(@, Piece(n, l))]

RECURSIVE parseLoop(_, _, _)
parseLoop(s, ls, n) ==
  IF n > Len(ls) THEN s ELSE parseLoop(parseLine(s, ls[n], n), ls, n + 1)

\* "Flush any remaining content", then return elements.
parseFinish(s) == flushList(flushParagraph(s))

parseMarkdownToElements(ls) == parseFinish(parseLoop(InitialPState, ls, 1)).elements

----------------------------------------------------------------------------
(* Block parser as a state machine: one step per source line *)

SetPState(r) ==
  /\ inCodeBlock' = r.inCodeBlock
  /\ codeBlockContent' = r.codeBlockContent
  /\ inList' = r.inList
  /\ listItems' = r.listItems
  /\ currentParagraph' = r.currentParagraph
  /\ elements' = r.elements

ParserIdle ==
  /\ lines = <<>> /\ i = 1 /\ parsed = FALSE /\ blankSeen = FALSE
  /\ inCodeBlock = FALSE /\ codeBlockContent = <<>> /\ inList = FALSE
  /\ listItems = <<>> /\ currentParagraph = <<>> /\ elements = <<>>

ParserInit ==
  /\ lines \in { ls \in SeqsUpTo(ParserLines, MaxLines) : Len(ls) >= 1 }
  /\ i = 1 /\ parsed = FALSE /\ blankSeen = FALSE
  /\ inCodeBlock = FALSE /\ codeBlockContent = <<>> /\ inList = FALSE
  /\ listItems = <<>> /\ currentParagraph = <<>> /\ elements = <<>>

ParseStep ==
  /\ ~parsed /\ i <= Len(lines)
  /\ SetPState(parseLine(PState, lines[i], i))
  /\ blankSeen' = (~inCodeBlock /\ lines[i].kind = "blank")
  /\ i' = i + 1
  /\ UNCHANGED <<lines, parsed, tvars, gvars, xvars>>

ParseReturn ==
  /\ ~parsed /\ i > Len(lines)
  /\ SetPState(parseFinish(PState))
  /\ parsed' = TRUE
  /\ blankSeen' = FALSE
  /\ UNCHANGED <<lines, i, tvars, gvars, xvars>>

NoStorage == [kind |-> "absent", items |-> <<>>]
NoOp == [op |-> "none", id |-> "", ret |-> "", ids |-> <<>>, threw |-> FALSE]
NoSheet == [none |-> 0]
NoResolve == [called |-> FALSE, preset |-> "", threw |-> FALSE, sheet |-> NoSheet]

ThemeIdle ==
  /\ storage = NoStorage /\ now = 0 /\ lastOp = NoOp /\ resolved = NoResolve

PipeIdle ==
  /\ gpc = "idle" /\ markdown = <<>> /\ stylePreset = "" /\ cleanMarkdown = <<>>
  /\ mermaidLoaded = FALSE /\ matchNo = 0 /\ index = 0 /\ diagrams = <<>>
  /\ inflight = [op |-> "none", block |-> 0] /\ rasterNo = 0 /\ mermaidDataUris = <<>>
  /\ document = [assembled |-> FALSE, styles |-> NoSheet, elements |-> <<>>]
  /\ stages = <<>> /\ outcome = [error |-> "", cause |-> "", url |-> 0]
  /\ rendered = {} /\ rasterized = {} /\ emojiMode = "" /\ renderIds = <<>>
  /\ engineTheme = "default" /\ renderThemes = <<>>

SanitizerIdle == epc = "idle" /\ emarkdown = <<>> /\ mode = "" /\ eresult = <<>>

FormatterIdle == fpc = "idle" /\ text = <<>> /\ parts = <<>> /\ lastIndex = 0

ViewerIdle ==
  /\ viewerMounted = FALSE /\ pdfResult = 0 /\ effects = <<>>
  /\ loading = FALSE /\ viewerError = FALSE
  /\ urlsCreated = 0 /\ revokedUrls = {}

PreviewIdle == mermaidInitialized = FALSE /\ ipc = "idle" /\ initCalls = 0

HookIdle ==
  /\ hookInputs = [version |-> 0, blank |-> TRUE] /\ hookRuns = <<>>
  /\ hookResult = 0 /\ hookError = 0

DraftIdle ==
  /\ editor = 0 /\ draft = 0 /\ saveTimer = 0 /\ idleSaves = <<>> /\ clearedSince = FALSE

UiIdle == HookIdle /\ DraftIdle

FunctionsIdle == SanitizerIdle /\ FormatterIdle /\ ViewerIdle /\ PreviewIdle /\ UiIdle

InitParser == ParserInit /\ ThemeIdle /\ PipeIdle /\ FunctionsIdle

NextParser == ParseStep \/ ParseReturn

SpecParser == InitParser /\ [][NextParser]_vars

----------------------------------------------------------------------------
(* Block parser: properties *)

\* The source line a block node starts on: the line of its first text piece;
\* a rule or an empty code block has no text and starts on the line of its key.
StartLine(e) == IF Len(e.items) > 0 THEN e.items[1].line ELSE e.key

\* The source lines whose text a node holds (a rule stands for its own line).
LinesOf(e) == { e.items[k].line : k \in 1..Len(e.items) }
                \cup (IF e.type = "hr" THEN {e.key} ELSE {})

\* C1: the returned block nodes are in document order: a node that starts on
\* an earlier source line comes earlier in the returned sequence.
C1_DocumentOrder ==
  parsed => \A a, b \in 1..Len(elements) :
              StartLine(elements[a]) < StartLine(elements[b]) => a < b

\* C2: no content is lost: every non-blank, non-fence input line is held by
\* some returned node, also when a code fence is never closed.
C2_NoContentLost ==
  parsed => \A n \in 1..Len(lines) :
              (lines[n].kind # "blank" /\ ~IsFence(lines[n]))
                => \E a \in 1..Len(elements) : n \in LinesOf(elements[a])

\* C19: after a blank line outside a code block has been processed, the
\* pending paragraph buffer and the pending list buffer are both empty.
C19_BlankFlushesBoth ==
  blankSeen => (currentParagraph = <<>> /\ listItems = <<>>)

\* C19, its consequence: two text lines with a blank line between them are
\* never held by the same paragraph node.
C19_BlankSeparatesParagraphs ==
  parsed => \A a \in 1..Len(elements) :
              elements[a].type = "paragraph" =>
                \A n \in 1..Len(lines) :
                  (lines[n].kind = "blank"
                     /\ \E p, q \in LinesOf(elements[a]) : p < n /\ n < q) => FALSE

\* C19 for the list buffer alone
C19_BlankFlushesList == blankSeen => listItems = <<>>

\* the step just taken processed line i - 1 outside a code block (an opening
\* fence included, the content and the closing fence of a block excluded)
ProcessedOutsideCode ==
  /\ ~parsed /\ i > 1
  /\ IsFence(lines[i - 1]) <=> inCodeBlock

\* C20: a pending list is flushed as soon as a blank line or any non-list
\* line is met: once such a line has been processed, no list item is pending.
C20_ListFlushedAtNonListLine ==
  (ProcessedOutsideCode /\ lines[i - 1].kind \notin {"ul", "ol"}) => listItems = <<>>

\* C20, its consequence: the items of one list node come from a run of list
\* lines with no non-list line between them.
C20_ListItemsContiguous ==
  parsed => \A a \in 1..Len(elements) :
              elements[a].type = "list" =>
                \A p, q \in LinesOf(elements[a]) :
                  \A n \in p..q : lines[n].kind \in {"ul", "ol"}

\* C20 for a run of list lines ended by a blank line
C20_ListFlushedAtBlank ==
  (ProcessedOutsideCode /\ lines[i - 1].kind = "blank") => listItems = <<>>

\* every code node holds, in order, the lines between its two fences
CodeBetweenFences ==
  \A a \in 1..Len(elements) :
    elements[a].type = "code" =>
      LET e == elements[a]
          open == e.key - Len(e.items) - 1
      IN  /\ open >= 1
          /\ IsFence(lines[open]) /\ IsFence(lines[e.key])
          /\ \A n \in 1..Len(e.items) :
               /\ e.items[n] = Piece(open + n, lines[open + n])
               /\ ~IsFence(lines[open + n])

\* C21: in code-block mode every line that is not a fence is appended to the
\* code buffer and gives no other node, whatever it looks like; only a fence
\* leaves the mode, emitting exactly one code node with the lines between the
\* two fences in order; the opening fence flushes the pending paragraph first.
C21_CodeBlockMode ==
  /\ []CodeBetweenFences
  /\ [][(~parsed /\ i <= Len(lines) /\ i' = i + 1) =>
          /\ (inCodeBlock /\ ~IsFence(lines[i])) =>
               /\ codeBlockContent' = Append(codeBlockContent, Piece(i, lines[i]))
               /\ inCodeBlock'
               /\ UNCHANGED <<elements, currentParagraph, listItems, inList>>
          /\ (inCodeBlock /\ IsFence(lines[i])) =>
               /\ ~inCodeBlock'
               /\ elements' = Append(elements, Element("code", 0, codeBlockContent, i))
               /\ codeBlockContent' = <<>>
          /\ (~inCodeBlock /\ IsFence(lines[i])) =>
               /\ inCodeBlock'
               /\ currentParagraph' = <<>>
               /\ elements' = IF currentParagraph # <<>>
                              THEN Append(elements,
                                          Element("paragraph", 0, currentParagraph, Len(elements)))
                              ELSE elements
          /\ (~inCodeBlock /\ ~IsFence(lines[i])) => ~inCodeBlock']_vars

\* a closed code block that holds a line which looks like a heading, a list
\* item, a rule, a quote or a blank line, opened while a paragraph was pending
C21_Witness ==
  /\ parsed
  /\ \E a \in 2..Len(elements) :
       /\ elements[a].type = "code"
       /\ elements[a - 1].type = "paragraph"
       /\ \E n \in 1..Len(elements[a].items) :
            lines[elements[a].items[n].line].kind \in {"heading", "ul", "ol", "hr", "quote", "blank"}

----------------------------------------------------------------------------
(* Style sheets (lib/pdf/styles) *)

\* A style sheet maps a role name to its attributes; of the attributes the
\* font size and the text colour are kept (0 and "" when the role sets none).
Attr(fs, c) == [fontSize |-> fs, color |-> c]

BuiltInPresets == {"github", "academic", "modern", "minimal"}

BaseRoles ==
  {"page", "heading1", "heading2", "heading3", "heading4", "heading5", "heading6",
   "paragraph", "strong", "emphasis", "link", "list", "listItem", "blockquote",
   "code", "codeBlock", "mermaidDiagram", "table", "tableRow", "tableCell",
   "tableCellHeader", "horizontalRule", "image"}

baseStyles ==
  [r \in BaseRoles |->
     CASE r = "page"      -> Attr(11, "")
       [] r = "heading1"  -> Attr(24, "")
       [] r = "heading2"  -> Attr(20, "")
       [] r = "heading3"  -> Attr(16, "")
       [] r = "heading4"  -> Attr(14, "")
       [] r = "heading5"  -> Attr(12, "")
       [] r = "heading6"  -> Attr(11, "")
       [] r = "link"      -> Attr(0, "#0066cc")
       [] r = "code"      -> Attr(10, "")
       [] r = "codeBlock" -> Attr(9, "")
       [] OTHER           -> Attr(0, "")]

\* { ...baseStyles, role: {...}, ... }: the roles of `over` replace those of the base.
Spread(base, over) ==
  [r \in DOMAIN base \cup DOMAIN over |-> IF r \in DOMAIN over THEN over[r] ELSE base[r]]

githubStyles ==
  Spread(baseStyles,
    [page |-> Attr(11, "#24292f"), heading1 |-> Attr(24, ""), heading2 |-> Attr(20, ""),
     link |-> Attr(0, "#0969da"), blockquote |-> Attr(0, "#656d76"),
     code |-> Attr(10, "#24292f"), codeBlock |-> Attr(9, "")])

academicStyles ==
  Spread(baseStyles,
    [page |-> Attr(12, "#000000"), heading1 |-> Attr(22, ""), heading2 |-> Attr(18, ""),
     heading3 |-> Attr(16, ""), heading4 |-> Attr(14, ""), strong |-> Attr(0, ""),
     emphasis |-> Attr(0, ""), link |-> Attr(0, "#000080"), blockquote |-> Attr(11, ""),
     code |-> Attr(10, ""), codeBlock |-> Attr(9, "")])

modernStyles ==
  Spread(baseStyles,
    [page |-> Attr(11, "#1a1a1a"), heading1 |-> Attr(28, "#2563eb"),
     heading2 |-> Attr(22, "#3b82f6"), heading3 |-> Attr(18, "#60a5fa"),
     heading4 |-> Attr(14, "#93c5fd"), link |-> Attr(0, "#2563eb"),
     blockquote |-> Attr(0, "#1e40af"), code |-> Attr(10, "#e11d48"),
     codeBlock |-> Attr(9, "#e2e8f0")])

minimalStyles ==
  Spread(baseStyles,
    [page |-> Attr(11, "#333333"), heading1 |-> Attr(24, ""), heading2 |-> Attr(20, ""),
     heading3 |-> Attr(16, ""), link |-> Attr(0, "#000000"), blockquote |-> Attr(0, ""),
     code |-> Attr(10, ""), codeBlock |-> Attr(9, "")])

\* a || b on colour strings: the empty (or missing) string is falsy
OrElse(a, b) == IF a # "" THEN a ELSE b

\* createCustomStyles reads theme.typography, theme.colors and theme.spacing;
\* reading a field of a missing section is a TypeError.
CustomStylesThrows(theme) ==
  ~theme.typography.present \/ ~theme.colors.present \/ ~theme.spacing.present

createCustomStyles(theme) ==
  LET c == theme.colors
      t == theme.typography
  IN  [page            |-> Attr(t.fontSize, c.textColor),
       heading1        |-> Attr(t.headingSize[1], OrElse(c.headingColor[1], c.textColor)),
       heading2        |-> Attr(t.headingSize[2], OrElse(c.headingColor[2], c.textColor)),
       heading3        |-> Attr(t.headingSize[3], OrElse(c.headingColor[3], c.textColor)),
       heading4        |-> Attr(t.headingSize[4], OrElse(c.headingColor[4], c.textColor)),
       heading5        |-> Attr(t.headingSize[5], ""),
       heading6        |-> Attr(t.headingSize[6], ""),
       paragraph       |-> Attr(0, ""),
       strong          |-> Attr(0, ""),
       emphasis        |-> Attr(0, ""),
       link            |-> Attr(0, c.linkColor),
       list            |-> Attr(0, ""),
       listItem        |-> Attr(0, ""),
       blockquote      |-> Attr(0, OrElse(c.blockquoteTextColor, c.textColor)),
       code            |-> Attr(t.codeFontSize, c.codeTextColor),
       codeBlock       |-> Attr(t.codeBlockFontSize, c.codeBlockTextColor),
       table           |-> Attr(0, ""),
       tableRow        |-> Attr(0, ""),
       tableCell       |-> Attr(0, ""),
       tableCellHeader |-> Attr(0, ""),
       horizontalRule  |-> Attr(0, ""),
       image           |-> Attr(0, "")]

----------------------------------------------------------------------------
(* Theme store (lib/theme-manager) *)

\* The value under THEME_STORAGE_KEY:
\*   "absent"   no entry (or the empty string)
\*   "corrupt"  text that JSON.parse rejects
\*   "nonarray" JSON that is not an array (object, number, string, null)
\*   "array"    a JSON array; every item is null or a theme object
Stored(k, its) == [kind |-> k, items |-> its]

Colors(p, tc, h) ==
  [present |-> p, textColor |-> tc, headingColor |-> h, linkColor |-> "#00f",
   codeTextColor |-> "", codeBlockTextColor |-> "", blockquoteTextColor |-> ""]
Typography(p, fs) ==
  [present |-> p, fontSize |-> fs, headingSize |-> <<24, 20, 16, 14, 12, 11>>,
   codeFontSize |-> 10, codeBlockFontSize |-> 9]
Spacing(p) == [present |-> p]

\* A theme as passed to saveTheme / found in imported JSON (no timestamps).
ThemeOf(id, body) ==
  [isNull |-> FALSE, id |-> id, colors |-> body.colors, typography |-> body.typography,
   spacing |-> body.spacing, createdAt |-> 0, updatedAt |-> 0]
NullEntry ==
  [isNull |-> TRUE, id |-> "", colors |-> Colors(FALSE, "", <<"", "", "", "">>),
   typography |-> Typography(FALSE, 0), spacing |-> Spacing(FALSE),
   createdAt |-> 0, updatedAt |-> 0]

\* stable sort, (b.updatedAt || 0) - (a.updatedAt || 0): newest first
RECURSIVE InsertByUpdated(_, _)
InsertByUpdated(sorted, t) ==
  IF sorted = <<>> THEN <<t>>
  ELSE IF Head(sorted).updatedAt >= t.updatedAt
       THEN <<Head(sorted)>> \o InsertByUpdated(Tail(sorted), t)
       ELSE <<t>> \o sorted

RECURSIVE SortByUpdated(_)
SortByUpdated(ts) ==
  IF ts = <<>> THEN <<>>
  ELSE InsertByUpdated(SortByUpdated(SubSeq(ts, 1, Len(ts) - 1)), ts[Len(ts)])

HasNull(ts) == \E k \in 1..Len(ts) : ts[k].isNull

\* getCustomThemes: everything that throws inside the try block gives [].
\* The comparator of sort reads updatedAt of both operands, so with two or
\* more items a null item throws; a single item is never compared.
getCustomThemes(st) ==
  IF st.kind # "array" THEN <<>>
  ELSE IF Len(st.items) >= 2 /\ HasNull(st.items) THEN <<>>
  ELSE SortByUpdated(st.items)

IndexOfId(ts, id) ==
  IF \E k \in 1..Len(ts) : ts[k].id = id
  THEN CHOOSE k \in 1..Len(ts) : ts[k].id = id /\ \A j \in 1..(k - 1) : ts[j].id # id
  ELSE 0

\* getTheme: themes.find(theme => theme.id === id) || null.
\* The callback reads theme.id, a TypeError on a null item met before a match.
getTheme(st, id) ==
  LET ts == getCustomThemes(st)
      k  == IndexOfId(ts, id)
      nullFirst == \E n \in 1..Len(ts) : ts[n].isNull /\ (k = 0 \/ n < k)
  IN  IF nullFirst THEN [threw |-> TRUE, found |-> FALSE, theme |-> NullEntry]
      ELSE IF k = 0 THEN [threw |-> FALSE, found |-> FALSE, theme |-> NullEntry]
      ELSE [threw |-> FALSE, found |-> TRUE, theme |-> ts[k]]

\* variant: the custom themes are looked up before the built-in names
getStylesForPresetCustomFirst(preset, st) ==
  LET customTheme == getTheme(st, preset)
  IN  IF customTheme.threw THEN [threw |-> TRUE, sheet |-> NoSheet]
      ELSE IF customTheme.found
           THEN IF CustomStylesThrows(customTheme.theme)
                THEN [threw |-> TRUE, sheet |-> NoSheet]
                ELSE [threw |-> FALSE, sheet |-> createCustomStyles(customTheme.theme)]
           ELSE CASE preset = "github"   -> [threw |-> FALSE, sheet |-> githubStyles]
                  [] preset = "academic" -> [threw |-> FALSE, sheet |-> academicStyles]
                  [] preset = "minimal"  -> [threw |-> FALSE, sheet |-> minimalStyles]
                  [] OTHER               -> [threw |-> FALSE, sheet |-> modernStyles]

\* getStylesForPreset
getStylesForPreset(preset, st) ==
  CASE preset = "github"   -> [threw |-> FALSE, sheet |-> githubStyles]
    [] preset = "academic" -> [threw |-> FALSE, sheet |-> academicStyles]
    [] preset = "modern"   -> [threw |-> FALSE, sheet |-> modernStyles]
    [] preset = "minimal"  -> [threw |-> FALSE, sheet |-> minimalStyles]
    [] OTHER ->
         LET customTheme == getTheme(st, preset)
         IN  IF customTheme.threw THEN [threw |-> TRUE, sheet |-> NoSheet]
             ELSE IF customTheme.found
                  THEN IF CustomStylesThrows(customTheme.theme)
                       THEN [threw |-> TRUE, sheet |-> NoSheet]
                       ELSE [threw |-> FALSE, sheet |-> createCustomStyles(customTheme.theme)]
                  ELSE [threw |-> FALSE, sheet |-> modernStyles]

\* { ...theme, createdAt, updatedAt }
Stamped(theme, created, updated) ==
  [theme EXCEPT !.isNull = FALSE, !.createdAt = created, !.updatedAt = updated]

\* variant: saveTheme does not look for a stored theme of the same id and
\* always pushes
saveThemeAlwaysPush(st, theme, t, setItemOk) ==
  LET themes == getCustomThemes(st)
  IN  IF themes # <<>> /\ (theme.isNull \/ HasNull(themes))
      THEN [threw |-> TRUE, storage |-> st]
      ELSE IF ~setItemOk THEN [threw |-> TRUE, storage |-> st]
      ELSE [threw |-> FALSE, storage |-> Stored("array", Append(themes, Stamped(theme, t, t)))]

\* saveTheme(theme) at time t; setItemOk is whether localStorage.setItem
\* succeeds (it throws when the quota is exceeded). Reading theme.id of a
\* null theme, or t.id of a null stored item, is a TypeError in the findIndex
\* callback, which only runs when the list is not empty.
saveTheme(st, theme, t, setItemOk) ==
  LET themes == getCustomThemes(st)
      existingIndex == IndexOfId(themes, theme.id)
      savedTheme == IF existingIndex > 0
                    THEN Stamped(theme, themes[existingIndex].createdAt, t)
                    ELSE Stamped(theme, t, t)
      updated == IF existingIndex > 0
                 THEN [themes EXCEPT ![existingIndex] = savedTheme]
                 ELSE Append(themes, savedTheme)
  IN  IF themes # <<>> /\ (theme.isNull \/ HasNull(themes))
      THEN [threw |-> TRUE, storage |-> st]
      ELSE IF ~setItemOk THEN [threw |-> TRUE, storage |-> st]
      ELSE [threw |-> FALSE, storage |-> Stored("array", updated)]

\* themes.filter(theme => theme.id !== id)
RECURSIVE WithoutId(_, _)
WithoutId(ts, id) ==
  IF ts = <<>> THEN <<>>
  ELSE IF Head(ts).id # id THEN <<Head(ts)>> \o WithoutId(Tail(ts), id)
       ELSE WithoutId(Tail(ts), id)

deleteTheme(st, id, setItemOk) ==
  LET themes == getCustomThemes(st)
      filteredThemes == WithoutId(themes, id)
  IN  IF HasNull(themes) THEN [threw |-> TRUE, ret |-> "", storage |-> st]
      ELSE IF Len(filteredThemes) = Len(themes) THEN [threw |-> FALSE, ret |-> "false", storage |-> st]
      ELSE IF ~setItemOk THEN [threw |-> FALSE, ret |-> "false", storage |-> st]
      ELSE [threw |-> FALSE, ret |-> "true", storage |-> Stored("array", filteredThemes)]

clearAllThemes(st) == NoStorage

\* duplicateTheme(id) at time t: the copy gets the id newId, which stands for
\* `custom-${Date.now()}-${Math.random()...}`
duplicateTheme(st, id, newId, t, setItemOk) ==
  LET theme == getTheme(st, id)
  IN  IF theme.threw THEN [threw |-> TRUE, ret |-> "", storage |-> st]
      ELSE IF ~theme.found THEN [threw |-> FALSE, ret |-> "null", storage |-> st]
      ELSE LET saved == saveTheme(st, [theme.theme EXCEPT !.id = newId], t, setItemOk)
           IN  [threw |-> saved.threw, ret |-> "", storage |-> saved.storage]

\* importThemes: `themes` is read once before the loop; every saveTheme call
\* reads the store again. Any throw inside is rethrown as the generic import
\* error; themes saved before the throw stay saved.
RECURSIVE importLoop(_, _, _, _, _, _)
importLoop(st, themes, imported, overwrite, t, importedIds) ==
  IF imported = <<>> THEN [threw |-> FALSE, ids |-> importedIds, storage |-> st]
  ELSE LET theme == Head(imported)
           exists == IndexOfId(themes, theme.id) > 0
           saved == saveTheme(st, theme, t, TRUE)
       IN  IF themes # <<>> /\ (theme.isNull \/ HasNull(themes))
           THEN [threw |-> TRUE, ids |-> importedIds, storage |-> st]
           ELSE IF ~exists \/ overwrite
           THEN IF saved.threw \/ theme.isNull
                THEN [threw |-> TRUE, ids |-> importedIds, storage |-> saved.storage]
                ELSE importLoop(saved.storage, themes, Tail(imported), overwrite, t,
                                Append(importedIds, theme.id))
           ELSE importLoop(st, themes, Tail(imported), overwrite, t, importedIds)

importThemes(st, json, overwrite, t) ==
  IF json.kind # "array" THEN [threw |-> TRUE, ids |-> <<>>, storage |-> st]
  ELSE importLoop(st, getCustomThemes(st), json.items, overwrite, t, <<>>)

----------------------------------------------------------------------------
(* Theme store and resolver as a state machine *)

MaxClock == 2
MaxImport == 2

ThemeIds == {"x", "y"}

CompleteBody == [colors |-> Colors(TRUE, "#111", <<"#a1", "", "", "#a4">>),
                 typography |-> Typography(TRUE, 11), spacing |-> Spacing(TRUE)]
NoColorsBody == [colors |-> Colors(FALSE, "", <<"", "", "", "">>),
                 typography |-> Typography(TRUE, 11), spacing |-> Spacing(TRUE)]

\* a theme with all sections and a negative number in one of them
NegativeBody == [colors |-> Colors(TRUE, "#111", <<"#a1", "", "", "#a4">>),
                 typography |-> Typography(TRUE, -1), spacing |-> Spacing(TRUE)]

\* saveTheme is called with a typed theme (theme editor, duplicateTheme);
\* importThemes takes any JSON text: its items can lack a section or be null.
ThemeInputs == { ThemeOf(id, CompleteBody) : id \in ThemeIds } \cup { ThemeOf("y", NegativeBody) }

ImportItems == ThemeInputs \cup { ThemeOf(id, NoColorsBody) : id \in ThemeIds } \cup {NullEntry}

\* JSON texts given to importThemes: text that is no JSON, JSON that is no
\* array, arrays of up to MaxImport themes, and arrays of one item that is
\* null or lacks a section
ImportJsons ==
  { Stored("corrupt", <<>>), Stored("nonarray", <<>>) }
  \cup { Stored("array", its) : its \in SeqsUpTo(ThemeInputs, MaxImport) }
  \cup { Stored("array", <<it>>) : it \in ImportItems }

Presets == BuiltInPresets \cup ThemeIds

ThemesInit ==
  /\ storage = NoStorage /\ now = 1 /\ lastOp = NoOp /\ resolved = NoResolve

Op(name, id, ret, ids, threw) ==
  [op |-> name, id |-> id, ret |-> ret, ids |-> ids, threw |-> threw]

SaveThemeOf(theme, setItemOk) ==
  LET r == saveTheme(storage, theme, now, setItemOk)
  IN  /\ storage' = r.storage
      /\ lastOp' = Op("saveTheme", theme.id, "", <<>>, r.threw)
      /\ resolved' = NoResolve
      /\ UNCHANGED <<now, pvars, gvars, xvars>>

SaveTheme == \E theme \in ThemeInputs, setItemOk \in BOOLEAN : SaveThemeOf(theme, setItemOk)

DuplicateTheme ==
  \E id \in ThemeIds, newId \in ThemeIds, setItemOk \in BOOLEAN :
    LET r == duplicateTheme(storage, id, newId, now, setItemOk)
    IN  /\ storage' = r.storage
        /\ lastOp' = Op("duplicateTheme", newId, r.ret, <<>>, r.threw)
        /\ resolved' = NoResolve
        /\ UNCHANGED <<now, pvars, gvars, xvars>>

DeleteTheme ==
  \E id \in ThemeIds, setItemOk \in BOOLEAN :
    LET r == deleteTheme(storage, id, setItemOk)
    IN  /\ storage' = r.storage
        /\ lastOp' = Op("deleteTheme", id, r.ret, <<>>, r.threw)
        /\ resolved' = NoResolve
        /\ UNCHANGED <<now, pvars, gvars, xvars>>

ImportThemesOf(json, overwrite) ==
  LET r == importThemes(storage, json, overwrite, now)
  IN  /\ storage' = r.storage
      /\ lastOp' = Op("importThemes", "", "", r.ids, r.threw)
      /\ resolved' = NoResolve
      /\ UNCHANGED <<now, pvars, gvars, xvars>>

ImportThemes == \E json \in ImportJsons, overwrite \in BOOLEAN : ImportThemesOf(json, overwrite)

ClearAllThemes ==
  /\ storage' = clearAllThemes(storage)
  /\ lastOp' = Op("clearAllThemes", "", "", <<>>, FALSE)
  /\ resolved' = NoResolve
  /\ UNCHANGED <<now, pvars, gvars, xvars>>

\* a call of getStylesForPreset (createPDFDocument, the theme selector)
Resolve ==
  \E preset \in Presets :
    LET r == getStylesForPreset(preset, storage)
    IN  /\ resolved' = [called |-> TRUE, preset |-> preset, threw |-> r.threw, sheet |-> r.sheet]
        /\ UNCHANGED <<storage, now, lastOp, pvars, gvars, xvars>>

Tick ==
  /\ now < MaxClock
  /\ now' = now + 1
  /\ UNCHANGED <<storage, lastOp, resolved, pvars, gvars, xvars>>

InitThemes == ThemesInit /\ ParserIdle /\ PipeIdle /\ FunctionsIdle

NextThemes ==
  \/ SaveTheme \/ DuplicateTheme \/ DeleteTheme \/ ImportThemes \/ ClearAllThemes
  \/ Resolve \/ Tick

SpecThemes == InitThemes /\ [][NextThemes]_vars

\* the theme store written with themes whose id is a built-in preset name
NamedIds == {"modern", "github", "x"}
NamedThemes == { ThemeOf(id, CompleteBody) : id \in NamedIds }

SaveNamedTheme == \E theme \in NamedThemes, setItemOk \in BOOLEAN : SaveThemeOf(theme, setItemOk)

ImportNamedThemes ==
  \E its \in SeqsUpTo(NamedThemes, MaxImport), overwrite \in BOOLEAN :
    ImportThemesOf(Stored("array", its), overwrite)

DuplicateNamedTheme ==
  \E id \in NamedIds, setItemOk \in BOOLEAN :
    LET r == duplicateTheme(storage, id, "y", now, setItemOk)
    IN  /\ storage' = r.storage
        /\ lastOp' = Op("duplicateTheme", "y", r.ret, <<>>, r.threw)
        /\ resolved' = NoResolve
        /\ UNCHANGED <<now, pvars, gvars, xvars>>

DeleteNamedTheme ==
  \E id \in NamedIds \cup {"y"}, setItemOk \in BOOLEAN :
    LET r == deleteTheme(storage, id, setItemOk)
    IN  /\ storage' = r.storage
        /\ lastOp' = Op("deleteTheme", id, r.ret, <<>>, r.threw)
        /\ resolved' = NoResolve
        /\ UNCHANGED <<now, pvars, gvars, xvars>>

NextNamed ==
  \/ SaveNamedTheme \/ ImportNamedThemes \/ DuplicateNamedTheme \/ DeleteNamedTheme
  \/ Resolve

SpecNamed == InitThemes /\ [][NextNamed]_vars

\* the theme store alone: the operations of ThemeManager that write it
NextStore ==
  \/ SaveTheme \/ DuplicateTheme \/ DeleteTheme \/ ImportThemes \/ ClearAllThemes \/ Tick

SpecStore == InitThemes /\ [][NextStore]_vars

----------------------------------------------------------------------------
(* Emoji sanitizer (lib/emoji-handler) *)

\* Code points of the ranges matched by removeEmojis, as character tokens
\* (U+1F680 the rocket, U+1F600 a face that emojiMap does not hold).
EmojiChars == {"U+1F680", "U+1F600"}

RECURSIVE removeEmojis(_)
removeEmojis(t) ==
  IF t = <<>> THEN <<>>
  ELSE IF Head(t) \in EmojiChars THEN removeEmojis(Tail(t))
       ELSE <<Head(t)>> \o removeEmojis(Tail(t))

\* The key of the '[Rocket]' entry as the source file holds it: the four
\* characters U+011F U+0178 U+0161 U+20AC, none of them in a matched range.
RocketKey == <<"U+011F", "U+0178", "U+0161", "U+20AC">>

\* emojiMap in the order of Object.entries (the '[Rocket]' entry; a
\* replacement is one token)
emojiMap == << [emoji |-> RocketKey, replacement |-> "[Rocket]"] >>

\* String.prototype.replaceAll: left to right, matches do not overlap
RECURSIVE replaceAll(_, _, _)
replaceAll(t, emoji, replacement) ==
  IF Len(t) < Len(emoji) THEN t
  ELSE IF SubSeq(t, 1, Len(emoji)) = emoji
       THEN <<replacement>> \o replaceAll(SubSeq(t, Len(emoji) + 1, Len(t)), emoji, replacement)
       ELSE <<Head(t)>> \o replaceAll(Tail(t), emoji, replacement)

RECURSIVE replaceEntries(_, _)
replaceEntries(t, entries) ==
  IF entries = <<>> THEN t
  ELSE replaceEntries(replaceAll(t, Head(entries).emoji, Head(entries).replacement), Tail(entries))

replaceEmojisWithText(t) == removeEmojis(replaceEntries(t, emojiMap))

prepareMarkdownForPDF(md, m) ==
  IF m = "replace" THEN replaceEmojisWithText(md) ELSE removeEmojis(md)

\* The line that is left when its text is sanitized. A text line of emoji
\* only becomes blank; a heading or list marker with nothing after it no
\* longer matches its pattern (which needs one character of content) and is
\* plain text made of the marker.
sanitizedLine(l, m) ==
  LET t == prepareMarkdownForPDF(l.text, m)
  IN  IF t = l.text THEN l
      ELSE IF t # <<>> THEN [l EXCEPT !.text = t]
      ELSE CASE l.kind = "text"            -> Line("blank", 0, <<>>)
             [] l.kind = "heading"         -> Line("text", 0, <<"#">>)
             [] l.kind \in {"ul", "ol"}    -> Line("text", 0, <<"-">>)
             [] OTHER                      -> [l EXCEPT !.text = <<>>]

\* prepareMarkdownForPDF on a markdown given as lines; line breaks are kept
sanitizedLines(md, m) == [n \in 1..Len(md) |-> sanitizedLine(md[n], m)]

----------------------------------------------------------------------------
(* Emoji sanitizer called on its own *)

MaxText == 4

SanitizerChars == {"a", "LF"} \cup EmojiChars \cup { RocketKey[k] : k \in 1..Len(RocketKey) }

SanitizerInit ==
  /\ epc = "called"
  /\ emarkdown \in SeqsUpTo(SanitizerChars, MaxText)
  /\ mode \in {"remove", "replace"}
  /\ eresult = <<>>

PrepareReturn ==
  /\ epc = "called"
  /\ eresult' = prepareMarkdownForPDF(emarkdown, mode)
  /\ epc' = "returned"
  /\ UNCHANGED <<emarkdown, mode, fvars, vvars, mvars, uvars, pvars, tvars, gvars>>

\* the sanitized text is sanitized again
PrepareAgain ==
  /\ epc = "returned" /\ eresult # emarkdown
  /\ emarkdown' = eresult
  /\ eresult' = <<>>
  /\ epc' = "called"
  /\ UNCHANGED <<mode, fvars, vvars, mvars, uvars, pvars, tvars, gvars>>

InitSanitizer == SanitizerInit /\ FormatterIdle /\ ViewerIdle /\ PreviewIdle /\ UiIdle /\ ParserIdle /\ ThemeIdle /\ PipeIdle

NextSanitizer == PrepareReturn \/ PrepareAgain

SpecSanitizer == InitSanitizer /\ [][NextSanitizer]_vars

----------------------------------------------------------------------------
(* Diagram extractor and rasterizer (lib/mermaid-renderer) *)

\* Index of the first line after `from` that contains ``` (0 if none).
NextFence(md, from) ==
  IF \E k \in (from + 1)..Len(md) : IsFence(md[k])
  THEN CHOOSE k \in (from + 1)..Len(md) :
         IsFence(md[k]) /\ \A j \in (from + 1)..(k - 1) : ~IsFence(md[j])
  ELSE 0

\* The matches of /```mermaid\n([\s\S]*?)```/g in source order: a match runs
\* from a ```mermaid line to the next ``` and the search resumes after it.
\* `text` is match[0] (the lines between the fences; the fences themselves
\* are the same in every match), `at` the line of the opening fence.
RECURSIVE mermaidMatches(_, _)
mermaidMatches(md, from) ==
  IF from > Len(md) THEN <<>>
  ELSE IF md[from].kind = "mfence" /\ NextFence(md, from) # 0
       THEN <<[at |-> from, text |-> SubSeq(md, from + 1, NextFence(md, from) - 1)]>>
              \o mermaidMatches(md, NextFence(md, from) + 1)
       ELSE mermaidMatches(md, from + 1)

\* Map.prototype.set: an existing key keeps its position and gets the new
\* value, a new key is appended.
MapSet(m, key, value) ==
  IF \E k \in 1..Len(m) : m[k].key = key
  THEN [k \in 1..Len(m) |-> IF m[k].key = key THEN [key |-> key, value |-> value] ELSE m[k]]
  ELSE Append(m, [key |-> key, value |-> value])

\* The ways svgToPngDataUri settles: resolve, or one of its rejections.
RasterOutcomes == {"ok", "invalidSvg", "loadError", "noContext", "exportError"}

----------------------------------------------------------------------------
(* generatePDF (lib/markdown/pdf-generator) *)

MaxChunks == 3

GenericError == "Failed to generate PDF"

\* variant: the catch block rethrows what it caught
generatePDFRethrow(error) == error

\* catch (error) { throw new Error('Failed to generate PDF') }
generatePDFCatch(error) == GenericError

\* Documents: a few chunks one after another.
ChunkLines(c) ==
  CASE c = "para"  -> << Line("text", 0, <<"a", "U+1F680">> \o RocketKey) >>
    [] c = "dA"    -> << Line("mfence", 0, <<>>), Line("text", 0, <<"a">>), Line("fence", 0, <<>>) >>
    [] c = "dB"    -> << Line("mfence", 0, <<>>), Line("text", 0, <<"b">>), Line("fence", 0, <<>>) >>
    [] c = "open"  -> << Line("fence", 0, <<>>), Line("text", 0, <<"a">>) >>

Chunks == {"para", "dA", "dB", "open"}

RECURSIVE Flatten(_)
Flatten(cs) == IF cs = <<>> THEN <<>> ELSE ChunkLines(Head(cs)) \o Flatten(Tail(cs))

\* ''.split('\n') is one empty line
Documents ==
  { IF cs = <<>> THEN << Line("blank", 0, <<>>) >> ELSE Flatten(cs) : cs \in SeqsUpTo(Chunks, MaxChunks) }

\* what the theme store can hold when generatePDF runs
PipeStores ==
  { NoStorage,
    Stored("array", << Stamped(ThemeOf("x", CompleteBody), 1, 1) >>),
    Stored("array", << Stamped(ThemeOf("x", NoColorsBody), 1, 1) >>) }

NoInflight == [op |-> "none", block |-> 0]

PipeInit ==
  /\ gpc = "called"
  /\ markdown \in Documents
  /\ stylePreset \in {"modern", "x"}
  /\ emojiMode \in {"remove", "replace"}
  /\ storage \in PipeStores
  /\ now = 1 /\ lastOp = NoOp /\ resolved = NoResolve
  /\ cleanMarkdown = <<>>
  /\ mermaidLoaded = FALSE
  /\ matchNo = 0 /\ index = 0
  /\ diagrams = <<>>
  /\ inflight = NoInflight
  /\ rasterNo = 0
  /\ mermaidDataUris = <<>>
  /\ document = [assembled |-> FALSE, styles |-> NoSheet, elements |-> <<>>]
  /\ stages = <<>>
  /\ outcome = [error |-> "", cause |-> "", url |-> 0]
  /\ rendered = {} /\ rasterized = {} /\ renderIds = <<>>
  /\ engineTheme = "default" /\ renderThemes = <<>>

blocks == mermaidMatches(cleanMarkdown, 1)

\* const cleanMarkdown = prepareMarkdownForPDF(markdown, 'remove'), then the
\* call of extractAndRenderMermaidDiagrams up to its first await
GenSanitize ==
  /\ gpc = "called"
  /\ cleanMarkdown' = sanitizedLines(markdown, "remove")
  /\ stages' = Append(stages, "sanitize")
  /\ gpc' = "sanitized"
  /\ UNCHANGED <<markdown, stylePreset, emojiMode, renderIds, engineTheme, renderThemes, mermaidLoaded, matchNo, index, diagrams, inflight,
                 rasterNo, mermaidDataUris, document, outcome, rendered, rasterized,
                 pvars, tvars, xvars>>

\* mermaid.initialize({ theme: 'neutral', ... }) of the PDF path
PdfTheme == "neutral"

\* extractAndRenderMermaidDiagrams: window check, import('mermaid') and
\* mermaid.initialize. Without a window, or when the import or initialize
\* throws (outer catch), the empty map is returned.
ExtractBegin ==
  /\ gpc = "sanitized"
  /\ \E loaded \in BOOLEAN :
       /\ mermaidLoaded' = loaded
       /\ engineTheme' = IF loaded THEN PdfTheme ELSE engineTheme
       /\ gpc' = IF loaded THEN "matching" ELSE "extracted"
  /\ stages' = Append(stages, "extract")
  /\ UNCHANGED <<markdown, stylePreset, emojiMode, renderIds, renderThemes, cleanMarkdown, matchNo, index, diagrams, inflight,
                 rasterNo, mermaidDataUris, document, outcome, rendered, rasterized,
                 pvars, tvars, xvars>>

\* `mermaid-pdf-${Date.now()}-${index}`
renderId(t, n) == [time |-> t, index |-> n]

\* while ((match = mermaidRegex.exec(markdown)) !== null): mermaid.render(id, code);
\* the clock may or may not have advanced since the last read of Date.now()
RenderStart ==
  /\ gpc = "matching" /\ matchNo < Len(blocks)
  /\ \E t \in {now, now + 1} :
       /\ t <= MaxClock
       /\ now' = t
       /\ renderIds' = Append(renderIds, renderId(t, index))
  /\ renderThemes' = Append(renderThemes, engineTheme)
  /\ inflight' = [op |-> "render", block |-> matchNo + 1]
  /\ gpc' = "rendering"
  /\ UNCHANGED <<markdown, stylePreset, emojiMode, engineTheme, cleanMarkdown, mermaidLoaded, matchNo, index, diagrams,
                 rasterNo, mermaidDataUris, document, stages, outcome, rendered, rasterized,
                 storage, lastOp, resolved, pvars, xvars>>

\* variant: no try/catch around mermaid.render; a rejection reaches the outer
\* catch of extractAndRenderMermaidDiagrams and ends the loop
RenderSettleNoCatch ==
  /\ gpc = "rendering"
  /\ \E ok \in BOOLEAN :
       IF ok
       THEN /\ diagrams' = MapSet(diagrams, blocks[matchNo + 1].text, [block |-> matchNo + 1])
            /\ index' = index + 1
            /\ rendered' = rendered \cup {matchNo + 1}
            /\ matchNo' = matchNo + 1
            /\ gpc' = "matching"
       ELSE /\ gpc' = "extracted"
            /\ UNCHANGED <<diagrams, index, rendered, matchNo>>
  /\ inflight' = NoInflight
  /\ UNCHANGED <<markdown, stylePreset, emojiMode, renderIds, engineTheme, renderThemes, cleanMarkdown, mermaidLoaded, rasterNo, mermaidDataUris,
                 document, stages, outcome, rasterized, pvars, tvars, xvars>>

\* the render promise settles: diagrams.set(match[0], svg); index++ -- or the
\* inner catch, which logs and goes on with the next match
RenderSettle ==
  /\ gpc = "rendering"
  /\ \E ok \in BOOLEAN :
       IF ok
       THEN /\ diagrams' = MapSet(diagrams, blocks[matchNo + 1].text, [block |-> matchNo + 1])
            /\ index' = index + 1
            /\ rendered' = rendered \cup {matchNo + 1}
       ELSE UNCHANGED <<diagrams, index, rendered>>
  /\ matchNo' = matchNo + 1
  /\ inflight' = NoInflight
  /\ gpc' = "matching"
  /\ UNCHANGED <<markdown, stylePreset, emojiMode, renderIds, engineTheme, renderThemes, cleanMarkdown, mermaidLoaded, rasterNo, mermaidDataUris,
                 document, stages, outcome, rasterized, pvars, tvars, xvars>>

\* no match is left: return diagrams
ExtractReturn ==
  /\ gpc = "matching" /\ matchNo = Len(blocks)
  /\ gpc' = "extracted"
  /\ UNCHANGED <<markdown, stylePreset, emojiMode, renderIds, engineTheme, renderThemes, cleanMarkdown, mermaidLoaded, matchNo, index, diagrams,
                 inflight, rasterNo, mermaidDataUris, document, stages, outcome, rendered,
                 rasterized, pvars, tvars, xvars>>

\* getMermaidDataUris(mermaidDiagramMap) is called
DataUrisBegin ==
  /\ gpc = "extracted"
  /\ stages' = Append(stages, "rasterize")
  /\ gpc' = "converting"
  /\ UNCHANGED <<markdown, stylePreset, emojiMode, renderIds, engineTheme, renderThemes, cleanMarkdown, mermaidLoaded, matchNo, index, diagrams,
                 inflight, rasterNo, mermaidDataUris, document, outcome, rendered, rasterized,
                 pvars, tvars, xvars>>

\* for (const [, svg] of diagrams): await svgToPngDataUri(svg)
RasterStart ==
  /\ gpc = "converting" /\ rasterNo < Len(diagrams)
  /\ inflight' = [op |-> "rasterize", block |-> diagrams[rasterNo + 1].value.block]
  /\ gpc' = "rasterizing"
  /\ UNCHANGED <<markdown, stylePreset, emojiMode, renderIds, engineTheme, renderThemes, cleanMarkdown, mermaidLoaded, matchNo, index, diagrams,
                 rasterNo, mermaidDataUris, document, stages, outcome, rendered, rasterized,
                 pvars, tvars, xvars>>

\* svgToPngDataUri settles: uris.push(pngUri) -- or the catch, which skips the diagram
RasterSettle ==
  /\ gpc = "rasterizing"
  /\ \E result \in RasterOutcomes :
       IF result = "ok"
       THEN /\ mermaidDataUris' = Append(mermaidDataUris, [png |-> diagrams[rasterNo + 1].value.block])
            /\ rasterized' = rasterized \cup {diagrams[rasterNo + 1].value.block}
       ELSE UNCHANGED <<mermaidDataUris, rasterized>>
  /\ rasterNo' = rasterNo + 1
  /\ inflight' = NoInflight
  /\ gpc' = "converting"
  /\ UNCHANGED <<markdown, stylePreset, emojiMode, renderIds, engineTheme, renderThemes, cleanMarkdown, mermaidLoaded, matchNo, index, diagrams,
                 document, stages, outcome, rendered, pvars, tvars, xvars>>

\* createPDFDocument(props): the props are destructured into markdown,
\* pageSize, orientation, margins, stylePreset and metadata; the page holds
\* the elements of parseMarkdownToElements(markdown, styles).
createPDFDocument(md, preset, uris, st) ==
  LET styles == getStylesForPreset(preset, st)
  IN  IF styles.threw
      THEN [threw |-> TRUE, document |-> [assembled |-> FALSE, styles |-> NoSheet, elements |-> <<>>]]
      ELSE [threw |-> FALSE,
            document |-> [assembled |-> TRUE, styles |-> styles.sheet,
                          elements |-> parseMarkdownToElements(md)]]

\* variant: getMermaidDataUris is not awaited; the document is built while
\* diagrams are still to be converted
AssembleNoAwait ==
  /\ gpc = "converting"
  /\ LET r == createPDFDocument(cleanMarkdown, stylePreset, mermaidDataUris, storage)
     IN  IF r.threw
         THEN /\ gpc' = "rejected"
              /\ outcome' = [error |-> generatePDFCatch("TypeError"), cause |-> "assemble", url |-> 0]
              /\ stages' = Append(stages, "assemble")
              /\ UNCHANGED document
         ELSE /\ gpc' = "encoding"
              /\ document' = r.document
              /\ stages' = stages \o <<"assemble", "encode">>
              /\ UNCHANGED outcome
  /\ UNCHANGED <<markdown, stylePreset, emojiMode, renderIds, engineTheme, renderThemes, cleanMarkdown, mermaidLoaded, matchNo, index, diagrams,
                 inflight, rasterNo, mermaidDataUris, rendered, rasterized, pvars, tvars, xvars>>

\* all diagrams are converted: uris is returned, createPDFDocument builds the
\* document and pdf(document).toBlob() is called; an exception goes to the catch
Assemble ==
  /\ gpc = "converting" /\ rasterNo = Len(diagrams)
  /\ LET r == createPDFDocument(cleanMarkdown, stylePreset, mermaidDataUris, storage)
     IN  IF r.threw
         THEN /\ gpc' = "rejected"
              /\ outcome' = [error |-> generatePDFCatch("TypeError"), cause |-> "assemble", url |-> 0]
              /\ stages' = Append(stages, "assemble")
              /\ UNCHANGED document
         ELSE /\ gpc' = "encoding"
              /\ document' = r.document
              /\ stages' = stages \o <<"assemble", "encode">>
              /\ UNCHANGED outcome
  /\ UNCHANGED <<markdown, stylePreset, emojiMode, renderIds, engineTheme, renderThemes, cleanMarkdown, mermaidLoaded, matchNo, index, diagrams,
                 inflight, rasterNo, mermaidDataUris, rendered, rasterized, pvars, tvars, xvars>>

\* toBlob settles: URL.createObjectURL(pdfBlob) and the result -- or the catch
EncodeSettle ==
  /\ gpc = "encoding"
  /\ \E ok \in BOOLEAN :
       IF ok
       THEN /\ gpc' = "resolved"
            /\ outcome' = [error |-> "", cause |-> "", url |-> 1]
       ELSE /\ gpc' = "rejected"
            /\ outcome' = [error |-> generatePDFCatch("encoder"), cause |-> "encode", url |-> 0]
  /\ UNCHANGED <<markdown, stylePreset, emojiMode, renderIds, engineTheme, renderThemes, cleanMarkdown, mermaidLoaded, matchNo, index, diagrams,
                 inflight, rasterNo, mermaidDataUris, document, stages, rendered, rasterized,
                 pvars, tvars, xvars>>

InitPipeline == PipeInit /\ ParserIdle /\ FunctionsIdle

NextPipeline ==
  \/ GenSanitize \/ ExtractBegin \/ RenderStart \/ RenderSettle \/ ExtractReturn
  \/ DataUrisBegin \/ RasterStart \/ RasterSettle \/ Assemble \/ EncodeSettle

SpecPipeline == InitPipeline /\ [][NextPipeline]_vars

----------------------------------------------------------------------------
(* generatePDF next to the preview's initializeMermaid, on one mermaid module *)

MaxInitCalls == 2

\* generatePDF is between two awaits (run to completion: no other task runs)
PdfRunning == gpc \in {"matching", "converting"}

\* initializeMermaid() is called, up to its await import('mermaid')
InitializeCall ==
  /\ ~PdfRunning
  /\ ipc = "idle" /\ initCalls < MaxInitCalls
  /\ ipc' = "importing"
  /\ initCalls' = initCalls + 1
  /\ UNCHANGED <<mermaidInitialized, evars, fvars, vvars, uvars, pvars, tvars, gvars>>

\* the import resolves: mermaid.initialize({ theme: 'dark', ... }) unless
\* mermaidInitialized, then the render loop up to its first await
InitializeResume ==
  /\ ~PdfRunning
  /\ ipc = "importing"
  /\ engineTheme' = IF mermaidInitialized THEN engineTheme ELSE "dark"
  /\ mermaidInitialized' = TRUE
  /\ ipc' = "rendering"
  /\ UNCHANGED <<markdown, stylePreset, emojiMode, renderIds, renderThemes, cleanMarkdown,
                 mermaidLoaded, matchNo, index, diagrams, inflight, rasterNo, mermaidDataUris,
                 document, stages, outcome, rendered, rasterized, gpc,
                 initCalls, evars, fvars, vvars, uvars, pvars, tvars>>

\* the render loop of the preview is over
InitializeReturn ==
  /\ ~PdfRunning
  /\ ipc = "rendering"
  /\ ipc' = "idle"
  /\ UNCHANGED <<mermaidInitialized, initCalls, evars, fvars, vvars, uvars, pvars, tvars, gvars>>

InitEngine ==
  /\ InitPipeline
  /\ stylePreset = "modern" /\ emojiMode = "remove" /\ storage = NoStorage

NextEngine ==
  \/ NextPipeline
  \/ InitializeCall \/ InitializeResume \/ InitializeReturn

SpecEngine == InitEngine /\ [][NextEngine]_vars

\* C25: every diagram render of the PDF path runs under the theme that the
\* PDF path configured.
C25_PdfRendersUnderPdfTheme ==
  \A k \in 1..Len(renderThemes) : renderThemes[k] = PdfTheme

\* C25 for the first render of an extraction, which is called in the same
\* task as mermaid.initialize
C25_FirstRenderUnderPdfTheme ==
  renderThemes # <<>> => renderThemes[1] = PdfTheme

----------------------------------------------------------------------------
(* Theme resolver: properties *)

\* the closed role set of the resolved style sheet
ClosedRoles ==
  {"page", "heading1", "heading2", "heading3", "heading4", "heading5", "heading6",
   "paragraph", "link", "code", "codeBlock", "blockquote", "list", "listItem",
   "table", "tableCell", "tableCellHeader", "horizontalRule", "image"}

StoredWithId(id) ==
  LET ts == getCustomThemes(storage)
  IN  { k \in 1..Len(ts) : ts[k].id = id }

\* C3: getStylesForPreset never raises, whatever the preset string and the
\* content of the theme store.
C3_ResolveNeverRaises == resolved.called => ~resolved.threw

\* C4: every style sheet getStylesForPreset returns, built-in or synthesized
\* from a custom theme, has the same set of role names, and that set contains
\* the closed role set.
C4_SameRoleSet ==
  (resolved.called /\ ~resolved.threw)
    => /\ DOMAIN resolved.sheet = DOMAIN githubStyles
       /\ DOMAIN resolved.sheet = DOMAIN academicStyles
       /\ DOMAIN resolved.sheet = DOMAIN modernStyles
       /\ DOMAIN resolved.sheet = DOMAIN minimalStyles
       /\ ClosedRoles \subseteq DOMAIN resolved.sheet

\* C5: for an id that is not a built-in name, getStylesForPreset returns the
\* "modern" sheet exactly when no theme with that id is in the store at the
\* moment of the call, and the sheet synthesized from the stored theme
\* otherwise; right after deleteTheme(id) returned true it returns "modern".
C5_ResolveTracksStore ==
  (resolved.called /\ resolved.preset \notin BuiltInPresets)
    => /\ ~resolved.threw
       /\ (StoredWithId(resolved.preset) = {}) <=> (resolved.sheet = modernStyles)
       /\ (StoredWithId(resolved.preset) # {})
            => resolved.sheet =
                 createCustomStyles(getCustomThemes(storage)[IndexOfId(getCustomThemes(storage), resolved.preset)])
       /\ (lastOp.op = "deleteTheme" /\ lastOp.ret = "true" /\ lastOp.id = resolved.preset)
            => resolved.sheet = modernStyles

HeadingRole == <<"heading1", "heading2", "heading3", "heading4", "heading5", "heading6">>

\* the colour a role is drawn in: its own, or the one inherited from the page
EffectiveColor(sheet, role) == OrElse(sheet[role].color, sheet["page"].color)

\* C14: in a sheet synthesized from a custom theme, headings 4, 5 and 6 have
\* the theme's base text colour, and headings 1 to 3 their own heading colour
\* when the theme gives one and the base text colour otherwise.
C14_HeadingColors ==
  (resolved.called /\ ~resolved.threw /\ StoredWithId(resolved.preset) # {})
    => LET theme == getTheme(storage, resolved.preset).theme
       IN  /\ \A lv \in 4..6 :
                EffectiveColor(resolved.sheet, HeadingRole[lv]) = theme.colors.textColor
           /\ \A lv \in 1..3 :
                EffectiveColor(resolved.sheet, HeadingRole[lv])
                  = OrElse(theme.colors.headingColor[lv], theme.colors.textColor)

\* C14 for the levels other than 4
C14_HeadingColorsBut4 ==
  (resolved.called /\ ~resolved.threw /\ StoredWithId(resolved.preset) # {})
    => LET theme == getTheme(storage, resolved.preset).theme
       IN  /\ \A lv \in 5..6 :
                EffectiveColor(resolved.sheet, HeadingRole[lv]) = theme.colors.textColor
           /\ \A lv \in 1..3 :
                EffectiveColor(resolved.sheet, HeadingRole[lv])
                  = OrElse(theme.colors.headingColor[lv], theme.colors.textColor)

\* the numbers of a stored theme
NumericFields(theme) ==
  {theme.typography.fontSize, theme.typography.codeFontSize, theme.typography.codeBlockFontSize}
  \cup { theme.typography.headingSize[lv] : lv \in 1..6 }

\* C15: every theme in the store has only non-negative numbers in its
\* typography and spacing; a theme that has a negative one is never written.
C15_NonNegativeNumbers ==
  \A k \in 1..Len(storage.items) : \A n \in NumericFields(storage.items[k]) : n >= 0

\* the fixed style sheet of a built-in preset
BuiltInSheet(preset) ==
  CASE preset = "github"   -> githubStyles
    [] preset = "academic" -> academicStyles
    [] preset = "modern"   -> modernStyles
    [] preset = "minimal"  -> minimalStyles

\* C26: in every state of the theme store each built-in preset name resolves
\* to that preset's fixed style sheet, also when a custom theme with the id
\* of a built-in name is stored.
C26_BuiltInFixed ==
  /\ \A preset \in BuiltInPresets :
       getStylesForPreset(preset, storage) = [threw |-> FALSE, sheet |-> BuiltInSheet(preset)]
  /\ (resolved.called /\ resolved.preset \in BuiltInPresets) =>
       (~resolved.threw /\ resolved.sheet = BuiltInSheet(resolved.preset))

\* "modern" was resolved while a custom theme with the id "modern" is stored
C26_Witness ==
  /\ resolved.called /\ resolved.preset = "modern"
  /\ storage.kind = "array"
  /\ \E k \in 1..Len(storage.items) : storage.items[k].id = "modern"

----------------------------------------------------------------------------
(* Theme store: properties *)

UniqueIds ==
  \A a, b \in 1..Len(storage.items) : a # b => storage.items[a].id # storage.items[b].id

\* the stored themes whose id is not id
Others(items, id) == { items[k] : k \in { j \in 1..Len(items) : items[j].id # id } }

\* the positions of the themes with that id
WithId(items, id) == { k \in 1..Len(items) : items[k].id = id }

\* what a successful saveTheme(theme) does to the store
SaveEffect(theme) ==
  LET old == WithId(storage.items, theme.id)
      new == WithId(storage'.items, theme.id)
  IN  /\ Others(storage'.items, theme.id) = Others(storage.items, theme.id)
      /\ Cardinality(new) = 1
      /\ Len(storage'.items) = Len(storage.items) + (IF old = {} THEN 1 ELSE 0)
      /\ \A k \in new :
           /\ storage'.items[k].updatedAt = now
           /\ storage'.items[k].createdAt =
                IF old = {} THEN now ELSE storage.items[CHOOSE j \in old : TRUE].createdAt
           /\ storage'.items[k] = Stamped(theme, storage'.items[k].createdAt, now)

\* C16: from the empty store, after any sequence of saveTheme,
\* duplicateTheme, importThemes, deleteTheme and clearAllThemes no two stored
\* themes share an id; saveTheme with a stored id replaces that one theme,
\* keeping its createdAt and setting updatedAt, with a new id it adds exactly
\* one theme, and it leaves all other stored themes as they are.
C16_UniqueIdsSaveInPlace ==
  /\ []UniqueIds
  /\ [][(lastOp'.op = "saveTheme" /\ ~lastOp'.threw) =>
          \A theme \in ThemeInputs : SaveThemeOf(theme, TRUE) => SaveEffect(theme)]_vars

\* a stored theme was saved again at a later time, next to another theme
C16_Witness ==
  /\ lastOp.op = "saveTheme" /\ ~lastOp.threw
  /\ Len(storage.items) = 2
  /\ \E k \in WithId(storage.items, lastOp.id) :
       storage.items[k].createdAt < storage.items[k].updatedAt

SameContent(a, b) ==
  a.colors = b.colors /\ a.typography = b.typography /\ a.spacing = b.spacing

IdsOf(items) == { items[k].id : k \in 1..Len(items) }

FirstWithId(items, id) == items[CHOOSE k \in WithId(items, id) : \A j \in WithId(items, id) : k <= j]
LastWithId(items, id) == items[CHOOSE k \in WithId(items, id) : \A j \in WithId(items, id) : k >= j]

\* what a successful importThemes(json, overwrite) does to the store, and
\* the ids it returns (in lastOp)
ImportEffect(json, overwrite) ==
  LET fresh == IdsOf(json.items) \ IdsOf(storage.items)
  IN  IF ~overwrite
      THEN /\ \A k \in 1..Len(storage.items) :
                \E j \in 1..Len(storage'.items) : storage'.items[j] = storage.items[k]
           /\ Len(storage'.items) = Len(storage.items) + Cardinality(fresh)
           /\ \A id \in fresh :
                /\ Cardinality(WithId(storage'.items, id)) = 1
                /\ SameContent(FirstWithId(storage'.items, id), FirstWithId(json.items, id))
           /\ { lastOp'.ids[k] : k \in 1..Len(lastOp'.ids) } = fresh
           /\ Len(lastOp'.ids) = Cardinality(fresh)
      ELSE \A id \in IdsOf(json.items) :
             /\ Cardinality(WithId(storage'.items, id)) = 1
             /\ SameContent(FirstWithId(storage'.items, id), LastWithId(json.items, id))

\* C17: importThemes with overwrite = false never replaces or changes a
\* stored theme: what was stored stays, every imported theme with a new id is
\* saved once with the content given for it, and the returned ids are the
\* saved ones, each once, also when the JSON holds an id several times; with
\* overwrite = true the stored themes of the imported ids are replaced.
C17_ImportAddsOnly ==
  [][(lastOp'.op = "importThemes" /\ ~lastOp'.threw) =>
       \A json \in ImportJsons, overwrite \in BOOLEAN :
          ImportThemesOf(json, overwrite) => ImportEffect(json, overwrite)]_vars

\* C17 for the JSON texts that hold every id once
C17_ImportAddsOnlyDistinctIds ==
  [][(lastOp'.op = "importThemes" /\ ~lastOp'.threw) =>
       \A json \in ImportJsons, overwrite \in BOOLEAN :
          (ImportThemesOf(json, overwrite) /\ Cardinality(IdsOf(json.items)) = Len(json.items))
            => ImportEffect(json, overwrite)]_vars

----------------------------------------------------------------------------
(* generatePDF: properties *)

AfterExtract == {"extracted", "converting", "rasterizing", "encoding", "resolved", "rejected"}
AfterConvert == {"encoding", "resolved", "rejected"}

Images(doc) == { n \in 1..Len(doc.elements) : doc.elements[n].type = "image" }

\* C6: every rasterized diagram URI handed to createPDFDocument is placed in
\* the page tree: the assembled page holds one image per URI.
C6_UrisPlaced ==
  document.assembled => Cardinality(Images(document)) = Len(mermaidDataUris)

\* C7: the failure of one diagram is contained to it: every match is
\* rendered and every rendered diagram is converted whatever failed before,
\* neither sub-call rejects, and with no diagram converted the result is empty.
C7_FailureContained ==
  /\ outcome.cause \notin {"render", "rasterize"}
  /\ gpc \in {"matching", "rendering"} => matchNo <= Len(blocks)
  /\ (gpc \in AfterExtract /\ mermaidLoaded) => matchNo = Len(blocks)
  /\ gpc \in AfterConvert => rasterNo = Len(diagrams)
  /\ gpc \in AfterConvert =>
       /\ Len(mermaidDataUris) = Cardinality(rasterized)
       /\ (rasterized = {} => mermaidDataUris = <<>>)

\* a first diagram failed to render, a second one was rendered and converted
C7_Witness ==
  /\ gpc = "resolved"
  /\ Len(blocks) >= 2 /\ 1 \notin rendered /\ 2 \in rasterized

\* C8: the URIs are at most as many as the mermaid blocks of the source and
\* come in the source order of the blocks they were produced from.
C8_LengthAndOrder ==
  /\ Len(mermaidDataUris) <= Len(blocks)
  /\ \A a, b \in 1..Len(mermaidDataUris) :
       a < b => mermaidDataUris[a].png < mermaidDataUris[b].png

Unterminated(md) == parseLoop(InitialPState, md, 1).inCodeBlock

\* the steps of generatePDF other than the assembly
BeforeAssemble ==
  \/ GenSanitize \/ ExtractBegin \/ RenderStart \/ RenderSettle \/ ExtractReturn
  \/ DataUrisBegin \/ RasterStart \/ RasterSettle \/ EncodeSettle

\* Assemble can be taken: its guard holds and createPDFDocument gives a
\* document or throws
AssembleReady ==
  /\ gpc = "converting" /\ rasterNo = Len(diagrams)
  /\ LET r == createPDFDocument(cleanMarkdown, stylePreset, mermaidDataUris, storage)
     IN  /\ r.threw \in BOOLEAN
         /\ r.threw \/ (r.document.assembled /\ Len(r.document.elements) >= 0)

\* C9: generatePDF ends in one of two ways, the result {blob, url, size} or
\* the generic error; it rejects only for an assembler error or an encoder
\* rejection, never for a failed diagram, an unknown theme id or an
\* unterminated code fence.
C9_TwoOutcomes ==
  /\ gpc \notin {"resolved", "rejected"} => (ENABLED BeforeAssemble \/ AssembleReady)
  /\ gpc = "resolved" => outcome = [error |-> "", cause |-> "", url |-> 1]
  /\ gpc = "rejected" =>
       /\ outcome.error = GenericError /\ outcome.url = 0
       /\ \/ outcome.cause = "encode" /\ document.assembled
          \/ outcome.cause = "assemble" /\ getStylesForPreset(stylePreset, storage).threw

\* resolved although a diagram failed, the theme id is unknown and a fence is open
C9_Witness ==
  /\ gpc = "resolved"
  /\ Len(blocks) > Cardinality(rasterized)
  /\ stylePreset = "x" /\ storage = NoStorage
  /\ Unterminated(cleanMarkdown)

StageOrder == <<"sanitize", "extract", "rasterize", "assemble", "encode">>
Started(stage) == \E k \in 1..Len(stages) : stages[k] = stage

\* C10: the stages of one invocation run as a strict sequence: sanitizing is
\* complete before extraction starts, every diagram is finished before the
\* document is assembled, encoding starts after assembly, and on the success
\* path every stage is started exactly once.
C10_StrictSequence ==
  /\ Len(stages) <= Len(StageOrder) /\ stages = SubSeq(StageOrder, 1, Len(stages))
  /\ Started("extract") => cleanMarkdown = sanitizedLines(markdown, "remove")
  /\ Started("assemble") =>
       /\ inflight = NoInflight
       /\ mermaidLoaded => matchNo = Len(blocks)
       /\ rasterNo = Len(diagrams)
  /\ Started("encode") => document.assembled
  /\ gpc = "resolved" => stages = StageOrder

\* a successful run with two diagrams rendered and converted
C10_Witness ==
  /\ gpc = "resolved" /\ Cardinality(rasterized) >= 2

\* C23: within one extraction no two render calls use the same identifier.
C23_RenderIdsDistinct ==
  \A a, b \in 1..Len(renderIds) : a # b => renderIds[a] # renderIds[b]

\* C23 for renders that follow a successful render, or a later clock tick
C23_RenderIdsDistinctAfterSuccess ==
  \A a, b \in 1..Len(renderIds) :
    (a < b /\ (a \in rendered \/ renderIds[a].time < renderIds[b].time))
      => renderIds[a] # renderIds[b]

\* the rasterization of the vector markup of block k has settled
RasterSettled(k) == \E j \in 1..rasterNo : diagrams[j].value.block = k

\* C22: diagrams are handled strictly one after another: while the vector
\* render of a block is in flight, every earlier block whose render succeeded
\* has been through its rasterization too.
C22_OneDiagramAtATime ==
  inflight.op = "render" =>
    \A k \in 1..(inflight.block - 1) : k \in rendered => RasterSettled(k)

\* C22, the part on operations in flight: the one awaited operation is the
\* render of the next match or the rasterization of the next map entry, and
\* nothing is in flight outside these two loops
C22_OneOperationInFlight ==
  /\ inflight.op = "render" <=> gpc = "rendering"
  /\ inflight.op = "rasterize" <=> gpc = "rasterizing"
  /\ inflight.op = "render" => inflight.block = matchNo + 1
  /\ inflight.op = "rasterize" => inflight.block = diagrams[rasterNo + 1].value.block

\* C24: the URIs returned are as many as the mermaid blocks whose render
\* and rasterization both succeed: every block whose render succeeded is
\* rasterized, and every successful rasterization gives exactly one URI.
C24_OneUriPerBlock ==
  gpc \in AfterConvert =>
    /\ \A k \in rendered : RasterSettled(k)
    /\ Len(mermaidDataUris) = Cardinality(rasterized)

DistinctBlockTexts ==
  \A a, b \in 1..Len(blocks) : a # b => blocks[a].text # blocks[b].text

\* C24 for documents whose mermaid blocks all differ in text
C24_OneUriPerDistinctBlock ==
  (gpc \in AfterConvert /\ DistinctBlockTexts) =>
    /\ \A k \in rendered : RasterSettled(k)
    /\ Len(mermaidDataUris) = Cardinality(rasterized)

----------------------------------------------------------------------------
(* Inline formatter (lib/pdf/document: parseInlineFormatting, formatText) *)

\* Index of the first occurrence of character c in t after position p (0 if none)
NextChar(t, c, p) ==
  IF \E k \in (p + 1)..Len(t) : t[k] = c
  THEN CHOOSE k \in (p + 1)..Len(t) : t[k] = c /\ \A j \in (p + 1)..(k - 1) : t[j] # c
  ELSE 0

\* linkRegex /\[([^\]]+)\]\(([^)]+)\)/ matched at position p: the label ends
\* at the first ] after p and the target at the first ) after the (.
LinkAt(t, p) ==
  LET r == NextChar(t, "]", p)
      e == IF r = 0 THEN 0 ELSE NextChar(t, ")", r + 1)
  IN  IF /\ p <= Len(t) /\ t[p] = "["
         /\ r >= p + 2 /\ r + 1 <= Len(t) /\ t[r + 1] = "("
         /\ e >= r + 3
      THEN [found |-> TRUE, index |-> p - 1, length |-> e - p + 1,
            label |-> SubSeq(t, p + 1, r - 1), url |-> SubSeq(t, r + 2, e - 1)]
      ELSE [found |-> FALSE, index |-> 0, length |-> 0, label |-> <<>>, url |-> <<>>]

\* linkRegex.exec(text) with the regex at lastIndex `from` (0-based): the
\* leftmost match that starts at or after it
linkRegexExec(t, from) ==
  IF \E p \in (from + 1)..Len(t) : LinkAt(t, p).found
  THEN LinkAt(t, CHOOSE p \in (from + 1)..Len(t) :
                     LinkAt(t, p).found /\ \A j \in (from + 1)..(p - 1) : ~LinkAt(t, j).found)
  ELSE LinkAt(t, Len(t) + 1)

\* marker m stands at position p of t
MarkerAt(t, m, p) == p + Len(m) - 1 <= Len(t) /\ SubSeq(t, p, p + Len(m) - 1) = m

\* the pattern m(.+?)m matches at p: m, one character or more, m
PairAt(t, m, p) ==
  MarkerAt(t, m, p) /\ \E q \in (p + Len(m) + 1)..Len(t) : MarkerAt(t, m, q)

\* text.replace(/m(.+?)m/g, '$1'): every leftmost, shortest match is replaced
\* by what is between its markers; the search goes on after the match
RECURSIVE replacePairs(_, _)
replacePairs(t, m) ==
  IF ~\E p \in 1..Len(t) : PairAt(t, m, p) THEN t
  ELSE LET p == CHOOSE a \in 1..Len(t) : PairAt(t, m, a) /\ \A j \in 1..(a - 1) : ~PairAt(t, m, j)
           q == CHOOSE b \in (p + Len(m) + 1)..Len(t) :
                  MarkerAt(t, m, b) /\ \A j \in (p + Len(m) + 1)..(b - 1) : ~MarkerAt(t, m, j)
       IN  SubSeq(t, 1, p - 1) \o SubSeq(t, p + Len(m), q - 1)
             \o replacePairs(SubSeq(t, q + Len(m), Len(t)), m)

\* "U+0060" is the backtick
formatText(t) == replacePairs(replacePairs(replacePairs(t, <<"*", "*">>), <<"*">>), <<"U+0060">>)

\* an element of `parts`: a Link (children, src) or a formatted string
LinkPart(m) == [type |-> "link", text |-> m.label, src |-> m.url]
TextPart(t) == [type |-> "text", text |-> t, src |-> <<>>]

----------------------------------------------------------------------------
(* Inline formatter as a state machine: one step per link match *)

MaxSpans == 3

\* Texts: a few spans one after another, separated by a space.
SpanChars(sp) ==
  CASE sp = "plain"      -> <<"a">>
    [] sp = "bold"       -> <<"*", "*", "b", "*", "*">>
    [] sp = "italic"     -> <<"*", "i", "*">>
    [] sp = "code"       -> <<"U+0060", "c", "U+0060">>
    [] sp = "link"       -> <<"[", "l", "]", "(", "u", ")">>
    [] sp = "boldLabel"  -> <<"[", "*", "*", "l", "*", "*", "]", "(", "u", ")">>
    [] sp = "boldLink"   -> <<"*", "*", "[", "l", "]", "(", "u", ")", "*", "*">>

Spans == {"plain", "bold", "italic", "code", "link", "boldLabel", "boldLink"}

\* the spans with one space between two of them
RECURSIVE FlattenSpans(_)
FlattenSpans(sps) ==
  IF sps = <<>> THEN <<>>
  ELSE IF Len(sps) = 1 THEN SpanChars(Head(sps))
  ELSE SpanChars(Head(sps)) \o <<" ">> \o FlattenSpans(Tail(sps))

Texts == { FlattenSpans(sps) : sps \in SeqsUpTo(Spans, MaxSpans) }

FormatterInit ==
  /\ fpc = "matching"
  /\ text \in Texts
  /\ parts = <<>>
  /\ lastIndex = 0

\* one iteration of while ((match = linkRegex.exec(text)) !== null)
LinkMatch ==
  /\ fpc = "matching"
  /\ LET match == linkRegexExec(text, lastIndex)
         before == IF match.index > lastIndex
                   THEN <<TextPart(formatText(SubSeq(text, lastIndex + 1, match.index)))>>
                   ELSE <<>>
     IN  /\ match.found
         /\ parts' = parts \o before \o <<LinkPart(match)>>
         /\ lastIndex' = match.index + match.length
  /\ UNCHANGED <<fpc, text, evars, vvars, mvars, uvars, pvars, tvars, gvars>>

\* exec returned null: the remaining text, and the return value
FormatReturn ==
  /\ fpc = "matching"
  /\ ~linkRegexExec(text, lastIndex).found
  /\ LET rest == IF lastIndex < Len(text)
                 THEN <<TextPart(formatText(SubSeq(text, lastIndex + 1, Len(text))))>>
                 ELSE <<>>
         all == parts \o rest
     IN  parts' = IF Len(all) > 0 THEN all ELSE <<TextPart(formatText(text))>>
  /\ fpc' = "returned"
  /\ UNCHANGED <<text, lastIndex, evars, vvars, mvars, uvars, pvars, tvars, gvars>>

InitFormatter == FormatterInit /\ SanitizerIdle /\ ViewerIdle /\ PreviewIdle /\ UiIdle /\ ParserIdle /\ ThemeIdle /\ PipeIdle

NextFormatter == LinkMatch \/ FormatReturn

SpecFormatter == InitFormatter /\ [][NextFormatter]_vars

\* the text of the fragments, one after another
RECURSIVE FragmentText(_)
FragmentText(ps) == IF ps = <<>> THEN <<>> ELSE Head(ps).text \o FragmentText(Tail(ps))

\* t without its style markers, link brackets and link targets
RECURSIVE PlainText(_, _)
PlainText(t, inTarget) ==
  IF t = <<>> THEN <<>>
  ELSE IF inTarget THEN PlainText(Tail(t), Head(t) # ")")
  ELSE IF Head(t) = "(" THEN PlainText(Tail(t), TRUE)
  ELSE IF Head(t) \in {"*", "U+0060", "[", "]"} THEN PlainText(Tail(t), FALSE)
  ELSE <<Head(t)>> \o PlainText(Tail(t), FALSE)

\* the link fragments of ps, in order
RECURSIVE LinkParts(_)
LinkParts(ps) ==
  IF ps = <<>> THEN <<>>
  ELSE (IF Head(ps).type = "link" THEN <<Head(ps)>> ELSE <<>>) \o LinkParts(Tail(ps))

\* the number of [label](url) in t
LinkCount(t) == Cardinality({ p \in 1..Len(t) : t[p] = "(" })

\* C13: parseInlineFormatting returns the fragments left to right: one link
\* fragment per [label](url) with the url as its target, plain fragments with
\* the markers stripped in between, and the fragment texts put together are
\* the text without link brackets, link targets and style markers.
C13_FragmentsReproduceText ==
  fpc = "returned" =>
    /\ Len(LinkParts(parts)) = LinkCount(text)
    /\ \A k \in 1..Len(LinkParts(parts)) : LinkParts(parts)[k].src = <<"u">>
    /\ FragmentText(parts) = PlainText(text, FALSE)

----------------------------------------------------------------------------
(* PDFViewer: the generation effect and its cleanup *)

MaxEffects == 3

\* One run of the effect: `mounted` is its local flag, `captured` the url of
\* the pdfResult of the render that created it (what its cleanup sees),
\* `blank` whether markdown.trim() is empty, `phase` where its generation is:
\*   "none"     shouldGenerate was false: the effect returned at once, with
\*              no timeout and no cleanup function
\*   "timer"    the 500 ms timeout is pending
\*   "cleared"  the timeout was cleared before it fired
\*   "running"  generatePDFPreview awaits generatePDF
\*   "done"     generatePDFPreview is over
Effect(captured, blank, shouldGenerate) ==
  [mounted |-> shouldGenerate, captured |-> captured, blank |-> blank,
   phase |-> IF shouldGenerate THEN "timer" ELSE "none"]

\* the run of the effect returned a cleanup function
HasCleanup(e) == e.phase # "none"

\* the function returned by the effect, run on its last run: mounted = false,
\* clearTimeout(timeoutId), and revokeObjectURL of the captured url
cleanup(es) ==
  IF HasCleanup(es[Len(es)])
  THEN [es EXCEPT ![Len(es)] =
          [@ EXCEPT !.mounted = FALSE,
                    !.phase = IF @ = "timer" THEN "cleared" ELSE @]]
  ELSE es

cleanupRevokes(es) ==
  IF HasCleanup(es[Len(es)]) /\ es[Len(es)].captured # 0
  THEN {es[Len(es)].captured}
  ELSE {}

\* the component after its first render
ViewerInit ==
  /\ viewerMounted = TRUE
  /\ pdfResult = 0
  /\ loading = FALSE /\ viewerError = FALSE
  /\ effects \in { <<Effect(0, blank, shouldGenerate)>> : blank \in BOOLEAN,
                                                         shouldGenerate \in BOOLEAN }
  /\ urlsCreated = 0
  /\ revokedUrls = {}

\* a dependency of the effect changes: the cleanup of the last run, then a
\* new run that sees the pdfResult of this render
DepsChange ==
  /\ viewerMounted /\ Len(effects) < MaxEffects
  /\ \E blank \in BOOLEAN, shouldGenerate \in BOOLEAN :
       effects' = Append(cleanup(effects), Effect(pdfResult, blank, shouldGenerate))
  /\ revokedUrls' = revokedUrls \cup cleanupRevokes(effects)
  /\ UNCHANGED <<viewerMounted, pdfResult, loading, viewerError, urlsCreated,
                 evars, fvars, mvars, uvars, pvars, tvars, gvars>>

\* the timeout fires: generatePDFPreview up to its first await
TimerFires ==
  \E e \in 1..Len(effects) :
    /\ effects[e].phase = "timer"
    /\ IF effects[e].blank
       THEN /\ pdfResult' = 0
            /\ effects' = [effects EXCEPT ![e].phase = "done"]
            /\ UNCHANGED <<loading, viewerError>>
       ELSE /\ effects' = [effects EXCEPT ![e].phase = "running"]
            /\ loading' = TRUE
            /\ viewerError' = FALSE
            /\ UNCHANGED pdfResult
    /\ UNCHANGED <<viewerMounted, urlsCreated, revokedUrls, evars, fvars, mvars, uvars, pvars, tvars, gvars>>

\* generatePDF resolves: it has created a blob URL; setPdfResult only if the
\* run is still mounted, and setLoading(false) in the finally block likewise
GenerateResolves ==
  \E e \in 1..Len(effects) :
    /\ effects[e].phase = "running"
    /\ urlsCreated' = urlsCreated + 1
    /\ pdfResult' = IF effects[e].mounted THEN urlsCreated + 1 ELSE pdfResult
    /\ loading' = IF effects[e].mounted THEN FALSE ELSE loading
    /\ effects' = [effects EXCEPT ![e].phase = "done"]
    /\ UNCHANGED <<viewerMounted, viewerError, revokedUrls, evars, fvars, mvars, uvars, pvars, tvars, gvars>>

\* generatePDF rejects: no URL; setError and setLoading(false) if still mounted
GenerateRejects ==
  \E e \in 1..Len(effects) :
    /\ effects[e].phase = "running"
    /\ viewerError' = IF effects[e].mounted THEN TRUE ELSE viewerError
    /\ loading' = IF effects[e].mounted THEN FALSE ELSE loading
    /\ effects' = [effects EXCEPT ![e].phase = "done"]
    /\ UNCHANGED <<viewerMounted, pdfResult, urlsCreated, revokedUrls, evars, fvars,
                   mvars, uvars, pvars, tvars, gvars>>

\* the component unmounts: the cleanup of the last run
Unmount ==
  /\ viewerMounted
  /\ viewerMounted' = FALSE
  /\ effects' = cleanup(effects)
  /\ revokedUrls' = revokedUrls \cup cleanupRevokes(effects)
  /\ UNCHANGED <<pdfResult, loading, viewerError, urlsCreated,
                 evars, fvars, mvars, uvars, pvars, tvars, gvars>>

InitViewer == ViewerInit /\ SanitizerIdle /\ FormatterIdle /\ PreviewIdle /\ UiIdle /\ ParserIdle /\ ThemeIdle /\ PipeIdle

NextViewer ==
  \/ DepsChange \/ TimerFires \/ GenerateResolves \/ GenerateRejects \/ Unmount

SpecViewer == InitViewer /\ [][NextViewer]_vars

\* no generation is pending or running
ViewerQuiet == \A e \in 1..Len(effects) : effects[e].phase \in {"none", "done", "cleared"}

\* C18: every blob URL created for the viewer is revoked once it is no longer
\* displayed (superseded, discarded, or the viewer unmounted): when the
\* viewer is unmounted and no generation is left, no created URL is unrevoked.
C18_UrlsRevoked ==
  (~viewerMounted /\ ViewerQuiet) => \A u \in 1..urlsCreated : u \in revokedUrls

\* C18 for the URLs that were superseded while the viewer was mounted and the
\* effect ran again afterwards: these are revoked
C18_SupersededCaptured ==
  \A e \in 1..Len(effects) :
    (HasCleanup(effects[e]) /\ effects[e].captured # 0 /\ ~effects[e].mounted)
      => effects[e].captured \in revokedUrls

\* the iframe is rendered, with pdfResult.url as its source
IframeShown == viewerMounted /\ pdfResult # 0 /\ ~viewerError

\* C27: the URL of the PDF on display has not been revoked.
C27_DisplayedUrlLive == IframeShown => pdfResult \notin revokedUrls

\* C27 as long as the inputs have changed at most once since the mount
C27_DisplayedUrlLiveOneChange ==
  (IframeShown /\ Len(effects) <= 2) => pdfResult \notin revokedUrls

\* C28: whenever no generation is in flight and no debounce timer is pending,
\* loading is false.
C28_LoadingEnds == (viewerMounted /\ ViewerQuiet) => ~loading

\* C28 while the run of the effect that set loading is still the current one
C28_LoadingEndsSameRun ==
  (viewerMounted /\ ViewerQuiet /\ \A e \in 1..Len(effects) - 1 : effects[e].phase # "done")
    => ~loading

----------------------------------------------------------------------------
(* usePDFGenerator: generate, the effect and regenerate *)

MaxRuns == 3

\* everything but the state of the hook and of the draft
nonUi == <<evars, fvars, vvars, mvars, pvars, tvars, gvars>>

\* generate(md, h) up to its first await: with blank inputs setResult(null)
\* and return, else setError(null) and the call of generatePDF
StartRun(inputs) ==
  /\ hookRuns' = Append(hookRuns, [version |-> inputs.version,
                                   phase |-> IF inputs.blank THEN "blank" ELSE "running"])
  /\ hookResult' = IF inputs.blank THEN 0 ELSE hookResult
  /\ hookError' = IF inputs.blank THEN hookError ELSE 0

\* the hook after its first render: the effect has called generate
HookInit ==
  /\ hookInputs \in { [version |-> 1, blank |-> b] : b \in BOOLEAN }
  /\ hookRuns = <<[version |-> 1, phase |-> IF hookInputs.blank THEN "blank" ELSE "running"]>>
  /\ hookResult = 0
  /\ hookError = 0

\* the debounced inputs change: the effect calls generate with them
HookInputsChange ==
  /\ Len(hookRuns) < MaxRuns
  /\ \E b \in BOOLEAN :
       /\ hookInputs' = [version |-> hookInputs.version + 1, blank |-> b]
       /\ StartRun(hookInputs')
  /\ UNCHANGED <<dvars, nonUi>>

\* regenerate(): generate with the current inputs
Regenerate ==
  /\ Len(hookRuns) < MaxRuns
  /\ StartRun(hookInputs)
  /\ UNCHANGED <<hookInputs, dvars, nonUi>>

\* generatePDF resolves for one of the runs: setResult(pdf)
HookResolves ==
  \E g \in 1..Len(hookRuns) :
    /\ hookRuns[g].phase = "running"
    /\ hookRuns' = [hookRuns EXCEPT ![g].phase = "resolved"]
    /\ hookResult' = hookRuns[g].version
    /\ UNCHANGED <<hookInputs, hookError, dvars, nonUi>>

\* generatePDF rejects for one of the runs: setError(err)
HookRejects ==
  \E g \in 1..Len(hookRuns) :
    /\ hookRuns[g].phase = "running"
    /\ hookRuns' = [hookRuns EXCEPT ![g].phase = "rejected"]
    /\ hookError' = hookRuns[g].version
    /\ UNCHANGED <<hookInputs, hookResult, dvars, nonUi>>

InitHook ==
  /\ HookInit /\ DraftIdle
  /\ SanitizerIdle /\ FormatterIdle /\ ViewerIdle /\ PreviewIdle
  /\ ParserIdle /\ ThemeIdle /\ PipeIdle

NextHook == HookInputsChange \/ Regenerate \/ HookResolves \/ HookRejects

SpecHook == InitHook /\ [][NextHook]_vars

HookQuiet == \A g \in 1..Len(hookRuns) : hookRuns[g].phase # "running"

LastRun == hookRuns[Len(hookRuns)]

\* C29: once all generations have completed, what the hook exposes belongs to
\* the most recent call of generate: its PDF if it resolved, its error if it
\* rejected, no PDF if its inputs were blank.
C29_LatestInputsWin ==
  (hookRuns # <<>> /\ HookQuiet) =>
    /\ LastRun.phase = "resolved" => (hookResult = LastRun.version /\ hookError = 0)
    /\ LastRun.phase = "rejected" => hookError = LastRun.version
    /\ LastRun.phase = "blank" => hookResult = 0

\* C29 when generate was called once
C29_LatestInputsWinSingleRun ==
  (hookRuns # <<>> /\ HookQuiet /\ Len(hookRuns) = 1) =>
    /\ LastRun.phase = "resolved" => (hookResult = LastRun.version /\ hookError = 0)
    /\ LastRun.phase = "rejected" => hookError = LastRun.version
    /\ LastRun.phase = "blank" => hookResult = 0

----------------------------------------------------------------------------
(* AppContent: autosave of the draft, and Clear *)

MaxContent == 3
MaxIdle == 2

\* the autosave effect for markdown m: nothing for '', else a 1000 ms timeout;
\* the cleanup of the previous run has cleared the previous timeout
autosaveTimer(m) == m

\* AppContent after hydration: the draft (or the initial text) is in the
\* editor and the autosave effect has run for it
DraftInit ==
  /\ editor \in 1..MaxContent
  /\ draft \in {0, editor}
  /\ saveTimer = autosaveTimer(editor)
  /\ idleSaves = <<>>
  /\ clearedSince = FALSE

\* the user edits: setMarkdown(m), then the autosave effect runs again
EditMarkdown ==
  /\ \E m \in 0..MaxContent :
       /\ m # editor
       /\ editor' = m
       /\ saveTimer' = autosaveTimer(m)
       /\ clearedSince' = (clearedSince /\ m = 0)
  /\ UNCHANGED <<draft, idleSaves, hvars, nonUi>>

\* the autosave timeout fires: saveMarkdown(markdown) schedules an idle callback
AutosaveFires ==
  /\ saveTimer # 0 /\ Len(idleSaves) < MaxIdle
  /\ idleSaves' = Append(idleSaves, saveTimer)
  /\ saveTimer' = 0
  /\ UNCHANGED <<editor, draft, clearedSince, hvars, nonUi>>

\* the idle callback of the oldest saveMarkdown call runs: localStorage.setItem
IdleCallbackRuns ==
  /\ idleSaves # <<>>
  /\ draft' = Head(idleSaves)
  /\ idleSaves' = Tail(idleSaves)
  /\ UNCHANGED <<editor, saveTimer, clearedSince, hvars, nonUi>>

\* handleClear, confirmed: setMarkdown(''), clearMarkdown(), and the autosave
\* effect runs again (its cleanup clears the timeout, no new one for '')
HandleClear ==
  /\ editor' = 0
  /\ draft' = 0
  /\ saveTimer' = autosaveTimer(0)
  /\ clearedSince' = TRUE
  /\ UNCHANGED <<idleSaves, hvars, nonUi>>

InitDraft ==
  /\ DraftInit /\ HookIdle
  /\ SanitizerIdle /\ FormatterIdle /\ ViewerIdle /\ PreviewIdle
  /\ ParserIdle /\ ThemeIdle /\ PipeIdle

NextDraft == EditMarkdown \/ AutosaveFires \/ IdleCallbackRuns \/ HandleClear

SpecDraft == InitDraft /\ [][NextDraft]_vars

\* C30: after a confirmed Clear the stored draft stays absent as long as the
\* editor content has not become non-empty again.
C30_ClearedDraftStaysAbsent == clearedSince => draft = 0

\* C30 for the pending debounce timer: after Clear no timeout is pending
C30_NoTimerAfterClear == clearedSince => saveTimer = 0

----------------------------------------------------------------------------
(* Emoji handling: properties *)

\* C11: generatePDF honours the emojiMode of its configuration: the markdown
\* is sanitized in the mode the caller asked for ('replace' gives the
\* bracketed tokens, 'remove' deletes).
C11_EmojiModeHonored ==
  Started("sanitize") => cleanMarkdown = sanitizedLines(markdown, emojiMode)

\* the characters of t outside the matched ranges, in order
RECURSIVE KeptChars(_)
KeptChars(t) ==
  IF t = <<>> THEN <<>>
  ELSE (IF Head(t) \in EmojiChars THEN <<>> ELSE <<Head(t)>>) \o KeptChars(Tail(t))

\* every rocket emoji replaced by the token of the table, the other emoji
\* deleted, everything else kept
RECURSIVE TokensForEmoji(_)
TokensForEmoji(t) ==
  IF t = <<>> THEN <<>>
  ELSE (IF Head(t) = "U+1F680" THEN <<"[Rocket]">>
        ELSE IF Head(t) \in EmojiChars THEN <<>> ELSE <<Head(t)>>)
       \o TokensForEmoji(Tail(t))

\* C12: prepareMarkdownForPDF in 'remove' mode returns the input without its
\* emoji code points, all other characters (line breaks too) kept in order;
\* in 'replace' mode the emoji of the table become their bracketed tokens and
\* the other emoji are deleted; the output holds no emoji code point and
\* sanitizing it again returns it unchanged.
C12_Sanitized ==
  epc = "returned" =>
    /\ mode = "remove" => eresult = KeptChars(emarkdown)
    /\ mode = "replace" => eresult = TokensForEmoji(emarkdown)
    /\ \A k \in 1..Len(eresult) : eresult[k] \notin EmojiChars
    /\ prepareMarkdownForPDF(eresult, mode) = eresult

\* C12 without the replacement table: what holds of the code in both modes
C12_RemoveModeAndIdempotent ==
  epc = "returned" =>
    /\ mode = "remove" => eresult = KeptChars(emarkdown)
    /\ \A k \in 1..Len(eresult) : eresult[k] \notin EmojiChars
    /\ prepareMarkdownForPDF(eresult, mode) = eresult

====
